---- MODULE Spec2Model ----
(***************************************************************************)
(* Deadliner-Bot: the reminder scheduler (scheduler.py), the importance    *)
(* score (importance_calculator.py) and the tables they read               *)
(* (database.py).                                                          *)
(*                                                                         *)
(* Time is counted in minutes since Monday 00:00 of week 0, Moscow time;   *)
(* every clock reading made during a tick is the tick's minute.            *)
(* Scores are fixed-point numbers in millionths (Micro); math.exp and      *)
(* math.log are computed by series to within 1e-5.                         *)
(* A check_and_send_notifications run is one step: it has no suspension    *)
(* point before bot.send_message.  The variables tick_done .. error_log    *)
(* describe what the last step did, and are empty after any other step.    *)
(***************************************************************************)
EXTENDS Integers, Sequences, FiniteSets, TLC

\* ----------------------------------------------------------------- bounds
\* at most this many rows are ever inserted into the deadlines table
MaxDeadlines == 2
\* at most this many direct calls of calculate_importance_score (ScoreSpec)
MaxCalls == 2
MaxCodes == 1
\* last wall-clock minute of a run of the cron job (CronSpec)
CronEnd == 7

\* telegram user ids
Users == {1, 2}
\* wall-clock minutes at which the cron job fires in the model:
\* Mon 09:59, Mon 10:00, Mon 10:01, Mon 20:00, Sat 20:00
TickTimes == {599, 600, 601, 1200, 8400}
\* deadlines a user can enter: weight, due date, and whether parse_date
\* produced a timezone-aware datetime (relative dates) or a naive one
\* (absolute dates): w10 due Mon 10:30, w0 due Mon 11:30, w5 due 10 days
\* after Mon 10:00
DeadlineInputs ==
    { [weight |-> 10, deadline_date |-> 630,   aware |-> TRUE],
      [weight |-> 0,  deadline_date |-> 690,   aware |-> FALSE],
      [weight |-> 5,  deadline_date |-> 15000, aware |-> FALSE] }
AllDays == <<0, 1, 2, 3, 4, 5, 6>>
\* notification preferences a user can save
SettingsInputs ==
    { [times |-> <<"10:00", "10:00">>, days |-> AllDays],
      [times |-> <<"20:00">>,          days |-> <<0, 1, 2, 3, 4>>] }
\* arguments of direct calls of calculate_importance_score (ScoreSpec)
ScoreWeights == {0, 2, 5, 10}
ScoreDates == {-120, -60, 60, 14400, 57600}
ScoreNows == {0, 30}

\* ------------------------------------------------------------------ state
VARIABLES
    now,                    \* clock reading of the last tick
    users,                  \* user ids with a row in the users table
    deadlines,              \* rows of the deadlines table
    next_id,                \* AUTOINCREMENT counter of deadlines.id
    notification_settings,  \* rows of user_notification_settings by user_id
    configured,             \* users who have saved notification preferences
    tick_done,              \* the last step was check_and_send_notifications
    all_users,              \* its get_all_users_for_notifications() result
    invoked,                \* send_user_notifications calls per user in it
    scored,                 \* per user the deadlines passed to the score
    buckets,                \* per user the two lists at the end of the call
    sent,                   \* per user the bot.send_message calls made
    error_log,              \* per user the logger.error lines written
    repo_error,             \* the database read that raised in the tick
    score_calls,            \* direct calls of calculate_importance_score
    clock,                  \* wall-clock minute since scheduler.start()
    next_run_time,          \* next fire time of the cron job
    instances,              \* the executor's count of submitted job runs
    pending,                \* run times of created tasks not yet started
    running,                \* evaluations started and not yet returned
    evaluated_at,           \* the minute each evaluation read as current_time
    skipped,                \* run times refused: max instances reached
    missed,                 \* run times dropped: misfire grace exceeded
    fired_for,              \* the fire time each evaluation was submitted for
    stopped,                \* ReminderScheduler.stop() has shut the scheduler
    access,                 \* user ids whose users row has has_access = 1
    granted,                \* user ids grant_access was called with
    returned,               \* the last Database call and what it returned
    conv,                   \* the chat's state in each ConversationHandler
    user_data,              \* context.user_data of the chat
    access_codes,           \* table access_codes: the data stored per code
    sort_preference,        \* user_display_settings.sort_preference
    shown                   \* the last message the bot sent to the chat

vars == <<now, users, deadlines, next_id, notification_settings, configured,
          tick_done, all_users, invoked, scored, buckets, sent, error_log,
          repo_error, score_calls, clock, next_run_time, instances, pending,
          running, evaluated_at, skipped, missed, fired_for, stopped, access,
          granted, returned, conv, user_data, access_codes, sort_preference,
          shown>>

dbVars == <<users, deadlines, next_id, notification_settings, configured>>
cronVars == <<clock, next_run_time, instances, pending, running,
              evaluated_at, skipped, missed, fired_for, stopped>>
repoVars == <<access, granted, returned>>
botVars == <<conv, user_data, access_codes, sort_preference, shown>>
tickVars == <<tick_done, all_users, invoked, scored, buckets, sent,
              error_log, repo_error>>

Micro == 1000000

\* ------------------------------------------------------- clock formatting
Digits == <<"0", "1", "2", "3", "4", "5", "6", "7", "8", "9">>

Pad2(n) == Digits[(n \div 10) + 1] \o Digits[(n % 10) + 1]

\* current_time.strftime('%H:%M')
Strftime(t) == Pad2((t % 1440) \div 60) \o ":" \o Pad2(t % 60)

\* current_time.weekday(), 0 = Monday
Weekday(t) == (t \div 1440) % 7

\* ------------------------------------------------------ importance score
\* fixed-point product of two numbers given in millionths
MulMicro(x, y) == (((x \div 1000) * y) \div 1000) + (((x % 1000) * y) \div Micro)

\* e^(-q) in millionths for whole q = 0..15
ExpNegWhole == <<1000000, 367879, 135335, 49787, 18316, 6738, 2479, 912,
                 335, 123, 45, 17, 6, 2, 1, 0>>

\* alternating Taylor series of e^(-r/1440), 0 <= r < 1440, from term k on
RECURSIVE ExpSeries(_, _, _)
ExpSeries(r, k, term) ==
    IF term = 0 THEN 0
    ELSE (IF k % 2 = 0 THEN term ELSE 0 - term)
         + ExpSeries(r, k + 1, (term * r) \div (1440 * (k + 1)))

\* math.exp(-hours_remaining / 24) for mins = 60 * hours_remaining >= 0
ExpNeg(mins) ==
    LET q == mins \div 1440
        r == mins % 1440
    IN  IF q + 1 > Len(ExpNegWhole) THEN 0
        ELSE MulMicro(ExpSeries(r, 0, Micro), ExpNegWhole[q + 1])

RECURSIVE Log2Floor(_)
Log2Floor(n) == IF n < 2 THEN 0 ELSE 1 + Log2Floor(n \div 2)

RECURSIVE Pow2(_)
Pow2(k) == IF k = 0 THEN 1 ELSE 2 * Pow2(k - 1)

\* z + z^3/3 + z^5/5 + ... from the term z^j on
RECURSIVE AtanhSeries(_, _, _)
AtanhSeries(term, z2, j) ==
    IF term = 0 THEN 0
    ELSE (term \div j) + AtanhSeries(MulMicro(term, z2), z2, j + 2)

\* natural logarithm of a whole number n >= 1, in millionths
LnWhole(n) ==
    LET k   == Log2Floor(n)
        num == n - Pow2(k)
        den == n + Pow2(k)
        z   == (((num * 1000) \div den) * 1000)
               + ((((num * 1000) % den) * 1000) \div den)
    IN  (k * 693147) + (2 * AtanhSeries(z, MulMicro(z, z), 1))

\* math.log(1 + overdue_hours) for mins = 60 * overdue_hours >= 0
Log1p(mins) == LnWhole(60 + mins) - LnWhole(60)

\* the total_score of calculate_importance_score once the subtraction
\* deadline_date - now has succeeded
TotalScore(weight, deadline_date, t) ==
    LET mins == deadline_date - t
        \* int(weight) of the INTEGER column deadlines.weight
        base_importance == weight
        urgency_factor ==
            IF mins > 0
            THEN 10 * ExpNeg(mins)
            ELSE (20 * Micro) + Log1p(0 - mins)
    IN  (base_importance * 2 * Micro) + urgency_factor

\* calculate_importance_score(weight, deadline_date): now = datetime.now()
\* is naive, so deadline_date - now raises TypeError for an aware date
calculate_importance_score(weight, deadline_date, aware, t) ==
    IF aware
    THEN [raised |-> TRUE,  value |-> 0]
    ELSE [raised |-> FALSE, value |-> TotalScore(weight, deadline_date, t)]

\* the if/elif chain of get_importance_description with the third test
\* strict
get_importance_description_strict(weight, deadline_date, aware, t) ==
    LET score == calculate_importance_score(weight, deadline_date, aware, t)
    IN  IF score.raised THEN [raised |-> TRUE, label |-> ""]
        ELSE [raised |-> FALSE,
              label |->
                 IF score.value >= 25 * Micro THEN "Critical"
                 ELSE IF score.value >= 15 * Micro THEN "VeryUrgent"
                 ELSE IF score.value > 10 * Micro THEN "Urgent"
                 ELSE IF score.value >= 7 * Micro THEN "Important"
                 ELSE IF score.value >= 4 * Micro THEN "Normal"
                 ELSE "LowPriority"]

\* get_importance_description(weight, deadline_date): the score, then the
\* if/elif chain; the returned texts are named by their meaning. The
\* TypeError of the score passes through.
get_importance_description(weight, deadline_date, aware, t) ==
    LET score == calculate_importance_score(weight, deadline_date, aware, t)
    IN  IF score.raised THEN [raised |-> TRUE, label |-> ""]
        ELSE [raised |-> FALSE,
              label |->
                 IF score.value >= 25 * Micro THEN "Critical"
                 ELSE IF score.value >= 15 * Micro THEN "VeryUrgent"
                 ELSE IF score.value >= 10 * Micro THEN "Urgent"
                 ELSE IF score.value >= 7 * Micro THEN "Important"
                 ELSE IF score.value >= 4 * Micro THEN "Normal"
                 ELSE "LowPriority"]

\* ------------------------------------------------------------ database.py
\* ORDER BY deadline_date ASC (rows of equal date in rowid order)
RECURSIVE OrderByDate(_)
OrderByDate(rows) ==
    IF rows = {} THEN <<>>
    ELSE LET first == CHOOSE r \in rows : \A o \in rows :
                          \/ r.deadline_date < o.deadline_date
                          \/ r.deadline_date = o.deadline_date /\ r.id <= o.id
         IN  <<first>> \o OrderByDate(rows \ {first})

get_user_deadlines(user_id, include_completed) ==
    OrderByDate({r \in deadlines :
                    r.user_id = user_id /\ (include_completed \/ ~r.completed)})

\* SELECT DISTINCT user_id FROM deadlines WHERE completed = 0
get_all_users_with_deadlines == {r.user_id : r \in deadlines}

get_all_users_for_notifications ==
    {r.user_id : r \in {d \in deadlines : ~d.completed}}

\* INSERT OR REPLACE of the row with primary key user_id
InsertOrReplace(table, user_id, row) ==
    [u \in DOMAIN table \cup {user_id} |->
        IF u = user_id THEN row ELSE table[u]]

DefaultSettings == [times |-> <<"10:00", "20:00">>, days |-> AllDays]

\* get_user_notification_settings that gives no times to a user the
\* previous tick has just notified
get_user_notification_settings_once(user_id) ==
    IF invoked[user_id] > 0
    THEN [times |-> << >>, days |-> AllDays]
    ELSE IF user_id \in DOMAIN notification_settings
    THEN notification_settings[user_id]
    ELSE DefaultSettings

get_user_notification_settings(user_id) ==
    IF user_id \in DOMAIN notification_settings
    THEN notification_settings[user_id]
    ELSE DefaultSettings

\* ----------------------------------------------------------- scheduler.py
InList(x, list) == \E i \in 1..Len(list) : list[i] = x

Min(a, b) == IF a < b THEN a ELSE b

\* should_notify with the weekday test left out
should_notify_any_day(settings, current_hour_minute, current_weekday) ==
    \E i \in 1..Len(settings.times) :
        settings.times[i] = current_hour_minute

\* the for loop over settings['times'] with its break
should_notify(settings, current_hour_minute, current_weekday) ==
    \E i \in 1..Len(settings.times) :
        /\ settings.times[i] = current_hour_minute
        /\ InList(current_weekday, settings.days)

\* Invocations with the call made inside the loop, once per matching entry
InvocationsPerEntry(settings, current_hour_minute, current_weekday) ==
    Cardinality({i \in 1..Len(settings.times) :
        /\ settings.times[i] = current_hour_minute
        /\ InList(current_weekday, settings.days)})

\* how many times "await self.send_user_notifications(user_id)" runs for
\* one user of all_users in one tick
Invocations(settings, current_hour_minute, current_weekday) ==
    IF should_notify(settings, current_hour_minute, current_weekday)
    THEN 1 ELSE 0

\* deadline['deadline_date'].replace(tzinfo=self.tz) when tzinfo is None
WithTz(deadline) ==
    IF deadline.aware THEN deadline ELSE [deadline EXCEPT !.aware = TRUE]

\* the for loop of send_user_notifications over deadlines[i..], t the clock;
\* seen lists the deadlines handed to the score so far; an exception of the
\* scoring call leaves the loop
RECURSIVE ClassifyLoop(_, _, _, _, _, _)
ClassifyLoop(dl, i, t, seen, urgent_deadlines, high_importance_deadlines) ==
    IF i > Len(dl)
    THEN [raised |-> FALSE, scored |-> seen, urgent |-> urgent_deadlines,
          regular |-> high_importance_deadlines]
    ELSE LET deadline == WithTz(dl[i])
             importance_score ==
                 calculate_importance_score(deadline.weight,
                     deadline.deadline_date, deadline.aware, t)
             mins_until == deadline.deadline_date - t
             seen_now == Append(seen, deadline.id)
         IN  IF importance_score.raised
             THEN [raised |-> TRUE, scored |-> seen_now,
                   urgent |-> urgent_deadlines,
                   regular |-> high_importance_deadlines]
             ELSE IF importance_score.value > 10 * Micro \/ mins_until < 60
             THEN ClassifyLoop(dl, i + 1, t, seen_now,
                      Append(urgent_deadlines, deadline.id),
                      high_importance_deadlines)
             ELSE IF importance_score.value > 5 * Micro \/ mins_until < 1440
             THEN ClassifyLoop(dl, i + 1, t, seen_now, urgent_deadlines,
                      Append(high_importance_deadlines, deadline.id))
             ELSE ClassifyLoop(dl, i + 1, t, seen_now, urgent_deadlines,
                      high_importance_deadlines)

\* the send_message call of _send_urgent_notification; fails: it raises
send_urgent_notification(user_id, list, fails) ==
    [sent |-> << [kind |-> "urgent", chat_id |-> user_id,
                  items |-> SubSeq(list, 1, Min(5, Len(list))),
                  more |-> 0, delivered |-> ~fails] >>,
     errors |-> IF fails THEN << "Failed to send urgent notification" >>
                ELSE << >>]

\* the send_message call of _send_regular_notification
send_regular_notification(user_id, list, fails) ==
    [sent |-> << [kind |-> "regular", chat_id |-> user_id,
                  items |-> SubSeq(list, 1, Min(3, Len(list))),
                  more |-> IF Len(list) > 3 THEN Len(list) - 3 ELSE 0,
                  delivered |-> ~fails] >>,
     errors |-> IF fails THEN << "Failed to send regular notification" >>
                ELSE << >>]

NoBuckets == [urgent |-> << >>, regular |-> << >>]
Nothing == [scored |-> << >>, buckets |-> NoBuckets, sent |-> << >>,
            errors |-> << >>]

\* send_user_notifications whose except clause still sends a regular
\* notification of the deadlines the loop got to
send_user_notifications_partial(user_id, t, fails) ==
    LET dl == get_user_deadlines(user_id, FALSE)
        loop == ClassifyLoop(dl, 1, t, << >>, << >>, << >>)
        found == [scored |-> loop.scored,
                  buckets |-> [urgent |-> loop.urgent,
                               regular |-> loop.regular]]
    IN  IF dl = << >> THEN Nothing
        ELSE IF loop.raised
        THEN found @@ send_regular_notification(user_id, loop.scored, fails)
        ELSE IF loop.urgent # << >>
        THEN found @@ send_urgent_notification(user_id, loop.urgent, fails)
        ELSE IF loop.regular # << >>
        THEN found @@ send_regular_notification(user_id, loop.regular, fails)
        ELSE found @@ [sent |-> << >>, errors |-> << >>]

\* one call of send_user_notifications(user_id) at clock t
send_user_notifications(user_id, t, fails) ==
    LET dl == get_user_deadlines(user_id, FALSE)
        loop == ClassifyLoop(dl, 1, t, << >>, << >>, << >>)
        found == [scored |-> loop.scored,
                  buckets |-> [urgent |-> loop.urgent,
                               regular |-> loop.regular]]
    IN  IF dl = << >> THEN Nothing
        ELSE IF loop.raised
        THEN found @@ [sent |-> << >>,
                       errors |-> << "Error sending notifications" >>]
        ELSE IF loop.urgent # << >>
        THEN found @@ send_urgent_notification(user_id, loop.urgent, fails)
        ELSE IF loop.regular # << >>
        THEN found @@ send_regular_notification(user_id, loop.regular, fails)
        ELSE found @@ [sent |-> << >>, errors |-> << >>]

\* an absent optional argument (None) is << >>, a given one << value >>
NoArgs == [title |-> << >>, description |-> << >>, deadline_date |-> << >>,
           weight |-> << >>]
\* no Database call was made yet
NoCall == [op |-> "none", deadline_id |-> 0, user_id |-> 0, args |-> NoArgs,
           value |-> FALSE]

\* context.user_data after clear(): no key is set
NoData == [title |-> << >>, description |-> << >>, deadline_date |-> << >>,
           weight |-> << >>, edit_deadline_id |-> << >>,
           editing_field |-> << >>]
\* the chat is in none of the conversations
NoConversation ==
    [add |-> "END", times |-> "END", edit |-> "END", code |-> "END"]

\* no database read raised
NoError == [user_id |-> 0, read |-> "none"]

RECURSIVE Repeated(_, _)
Repeated(seq, n) == IF n = 0 THEN << >> ELSE seq \o Repeated(seq, n - 1)

\* ---------------------------------------------------------------- actions
Init ==
    /\ now = 0
    /\ users = {}
    /\ deadlines = {}
    /\ next_id = 1
    /\ notification_settings = [u \in {} |-> DefaultSettings]
    /\ configured = {}
    /\ tick_done = FALSE
    /\ all_users = {}
    /\ invoked = [u \in Users |-> 0]
    /\ scored = [u \in Users |-> << >>]
    /\ buckets = [u \in Users |-> NoBuckets]
    /\ sent = [u \in Users |-> << >>]
    /\ error_log = [u \in Users |-> << >>]
    /\ repo_error = NoError
    /\ score_calls = << >>
    /\ clock = 0
    /\ next_run_time = 1
    /\ instances = 0
    /\ pending = << >>
    /\ running = 0
    /\ evaluated_at = << >>
    /\ skipped = {}
    /\ missed = {}
    /\ fired_for = << >>
    /\ stopped = FALSE
    /\ access = {}
    /\ granted = {}
    /\ returned = NoCall
    /\ conv = NoConversation
    /\ user_data = NoData
    /\ access_codes = {}
    /\ sort_preference = "importance_desc"
    /\ shown = [view |-> "none", lines |-> << >>]

\* the step was not a tick: nothing was evaluated or sent by it
NoTick ==
    /\ tick_done' = FALSE
    /\ all_users' = {}
    /\ invoked' = [u \in Users |-> 0]
    /\ scored' = [u \in Users |-> << >>]
    /\ buckets' = [u \in Users |-> NoBuckets]
    /\ sent' = [u \in Users |-> << >>]
    /\ error_log' = [u \in Users |-> << >>]
    /\ repo_error' = NoError

\* Database.add_user (the /start handler)
AddUser(user_id) ==
    /\ users' = users \cup {user_id}
    /\ notification_settings' =
           IF user_id \in DOMAIN notification_settings
           THEN notification_settings
           ELSE InsertOrReplace(notification_settings, user_id,
                                DefaultSettings)
    /\ access' = access \ {user_id}
    /\ NoTick
    /\ UNCHANGED <<now, deadlines, next_id, configured, score_calls, cronVars,
                   granted, returned, botVars>>

\* Database.add_deadline; the bot offers it to users who ran /start
AddDeadline(user_id, inp) ==
    /\ user_id \in users
    /\ next_id <= MaxDeadlines
    /\ deadlines' = deadlines \cup
           { [id |-> next_id, user_id |-> user_id, weight |-> inp.weight,
              deadline_date |-> inp.deadline_date, aware |-> inp.aware,
              completed |-> FALSE] }
    /\ next_id' = next_id + 1
    /\ NoTick
    /\ UNCHANGED <<now, users, notification_settings, configured,
                   score_calls, cronVars, repoVars, botVars>>

\* Database.complete_deadline: UPDATE ... WHERE id = ? AND user_id = ?
CompleteDeadline(deadline_id, user_id) ==
    /\ deadlines' =
           { IF r.id = deadline_id /\ r.user_id = user_id
             THEN [r EXCEPT !.completed = TRUE] ELSE r : r \in deadlines }
    /\ NoTick
    /\ UNCHANGED <<now, users, next_id, notification_settings, configured,
                   score_calls, cronVars, repoVars, botVars>>

\* Database.reopen_deadline: UPDATE ... WHERE id = ? AND user_id = ?
ReopenDeadline(deadline_id, user_id) ==
    /\ deadlines' =
           { IF r.id = deadline_id /\ r.user_id = user_id
             THEN [r EXCEPT !.completed = FALSE] ELSE r : r \in deadlines }
    /\ NoTick
    /\ UNCHANGED <<now, users, next_id, notification_settings, configured,
                   score_calls, cronVars, repoVars, botVars>>

\* Database.delete_deadline: DELETE ... WHERE id = ? AND user_id = ?
DeleteDeadline(deadline_id, user_id) ==
    /\ deadlines' =
           {r \in deadlines : ~(r.id = deadline_id /\ r.user_id = user_id)}
    /\ NoTick
    /\ UNCHANGED <<now, users, next_id, notification_settings, configured,
                   score_calls, cronVars, repoVars, botVars>>

\* Database.update_user_notification_settings
UpdateSettings(user_id, inp) ==
    /\ user_id \in users
    /\ notification_settings' =
           InsertOrReplace(notification_settings, user_id, inp)
    /\ configured' = configured \cup {user_id}
    /\ NoTick
    /\ UNCHANGED <<now, users, deadlines, next_id, score_calls, cronVars, repoVars, botVars>>

\* ReminderScheduler.check_and_send_notifications fired at minute t;
\* failing: the users for whom bot.send_message raises
Tick(t, failing) ==
    LET current_hour_minute == Strftime(t)
        current_weekday == Weekday(t)
        listed == get_all_users_for_notifications
        calls == [u \in Users |->
                    IF u \in listed
                    THEN Invocations(get_user_notification_settings(u),
                             current_hour_minute, current_weekday)
                    ELSE 0]
        result == [u \in Users |->
                    IF calls[u] = 0 THEN Nothing
                    ELSE send_user_notifications(u, t, u \in failing)]
    IN  /\ t >= now
        /\ now' = t
        /\ tick_done' = TRUE
        /\ all_users' = listed
        /\ invoked' = calls
        /\ scored' = [u \in Users |-> Repeated(result[u].scored, calls[u])]
        /\ buckets' = [u \in Users |-> result[u].buckets]
        /\ sent' = [u \in Users |-> Repeated(result[u].sent, calls[u])]
        /\ error_log' = [u \in Users |-> Repeated(result[u].errors, calls[u])]
        /\ repo_error' = NoError
        /\ UNCHANGED <<dbVars, score_calls, cronVars, repoVars, botVars>>

\* check_and_send_notifications fired at minute t while sqlite raises on
\* one read made for user bad. read = "settings": the call of
\* get_user_notification_settings(bad) in the user loop, which no try
\* encloses, so the exception leaves the loop and the job; earlier are the
\* listed users the loop handled before bad (the SELECT DISTINCT has no
\* ORDER BY). read = "deadlines": the call of get_user_deadlines(bad) inside
\* the try of send_user_notifications, which logs and returns.
TickRepoError(t, failing, bad, read, earlier) ==
    LET current_hour_minute == Strftime(t)
        current_weekday == Weekday(t)
        listed == get_all_users_for_notifications
        reached == IF read = "settings" THEN earlier ELSE listed
        calls == [u \in Users |->
                    IF u \in reached
                    THEN Invocations(get_user_notification_settings(u),
                             current_hour_minute, current_weekday)
                    ELSE 0]
        result == [u \in Users |->
                    IF calls[u] = 0 THEN Nothing
                    ELSE IF u = bad
                    THEN [Nothing EXCEPT
                             !.errors = << "Error sending notifications" >>]
                    ELSE send_user_notifications(u, t, u \in failing)]
    IN  /\ t >= now
        /\ bad \in listed
        /\ earlier \subseteq listed \ {bad}
        /\ read = "deadlines" => earlier = {} /\ calls[bad] > 0
        /\ now' = t
        /\ tick_done' = TRUE
        /\ all_users' = listed
        /\ invoked' = calls
        /\ scored' = [u \in Users |-> Repeated(result[u].scored, calls[u])]
        /\ buckets' = [u \in Users |-> result[u].buckets]
        /\ sent' = [u \in Users |-> Repeated(result[u].sent, calls[u])]
        /\ error_log' = [u \in Users |-> Repeated(result[u].errors, calls[u])]
        /\ repo_error' = [user_id |-> bad, read |-> read]
        /\ UNCHANGED <<dbVars, score_calls, cronVars, repoVars, botVars>>

Next ==
    \/ \E u \in Users : AddUser(u)
    \/ \E u \in Users, inp \in DeadlineInputs : AddDeadline(u, inp)
    \/ \E id \in 1..MaxDeadlines, u \in Users : CompleteDeadline(id, u)
    \/ \E r \in deadlines : ReopenDeadline(r.id, r.user_id)
    \/ \E r \in deadlines : DeleteDeadline(r.id, r.user_id)
    \/ \E u \in Users, inp \in SettingsInputs : UpdateSettings(u, inp)
    \/ \E t \in TickTimes, failing \in SUBSET Users : Tick(t, failing)

Spec == Init /\ [][Next]_vars

\* the program with database reads that can fail during a tick
NextFault ==
    \/ Next
    \/ \E t \in TickTimes, failing \in SUBSET Users, bad \in Users,
          read \in {"settings", "deadlines"}, earlier \in SUBSET Users :
            TickRepoError(t, failing, bad, read, earlier)

FaultSpec == Init /\ [][NextFault]_vars

\* -------------------------------------------- direct calls of the score
\* a caller evaluates calculate_importance_score(weight, deadline_date) and
\* get_importance_description(weight, deadline_date) while datetime.now()
\* reads t
CallScore(weight, deadline_date, aware, t) ==
    /\ Len(score_calls) < MaxCalls
    /\ score_calls' = Append(score_calls,
           [weight |-> weight, deadline_date |-> deadline_date,
            aware |-> aware, now |-> t,
            result |-> calculate_importance_score(weight, deadline_date,
                                                  aware, t),
            description |-> get_importance_description(weight,
                                deadline_date, aware, t)])
    /\ UNCHANGED <<now, dbVars, tickVars, cronVars, repoVars, botVars>>

NextScore ==
    \E w \in ScoreWeights, d \in ScoreDates, a \in BOOLEAN, t \in ScoreNows :
        CallScore(w, d, a, t)

ScoreSpec == Init /\ [][NextScore]_vars

\* ------------------------------------------------- the cron job's runs
\* misfire_grace_time=300 seconds of add_job, in minutes
MisfireGrace == 5
\* add_job passes no max_instances: the scheduler's default of one
MaxInstances == 1

otherVars == <<now, dbVars, tickVars, score_calls, repoVars, botVars>>

\* a minute of wall-clock time passes
ClockTick ==
    /\ clock < CronEnd
    /\ clock' = clock + 1
    /\ UNCHANGED <<next_run_time, instances, pending, running, evaluated_at,
                   skipped, missed, fired_for, stopped, otherVars>>

\* the scheduler wakes with the job due, without the instance limit
WakeUnlimited ==
    /\ ~stopped
    /\ next_run_time <= clock
    /\ pending' = Append(pending, clock)
    /\ instances' = instances + 1
    /\ next_run_time' = clock + 1
    /\ UNCHANGED <<clock, running, evaluated_at, skipped, missed, fired_for,
                   stopped, otherVars>>

\* the scheduler wakes with the job due (trigger cron, minute='*'): the
\* fire times up to now are coalesced to the latest one, the run is handed
\* to the executor unless max_instances runs are already counted, and the
\* next fire time is the next minute
Wake ==
    /\ ~stopped
    /\ next_run_time <= clock
    /\ IF instances >= MaxInstances
       THEN /\ skipped' = skipped \cup {clock}
            /\ UNCHANGED <<pending, instances>>
       ELSE /\ pending' = Append(pending, clock)
            /\ instances' = instances + 1
            /\ UNCHANGED skipped
    /\ next_run_time' = clock + 1
    /\ UNCHANGED <<clock, running, evaluated_at, missed, fired_for, stopped,
                   otherVars>>

\* the task of a submitted run starts: a run later than the grace time is
\* dropped, otherwise check_and_send_notifications begins and reads
\* current_time = datetime.now(self.tz)
StartRun ==
    /\ pending # << >>
    /\ pending' = Tail(pending)
    /\ IF clock - Head(pending) > MisfireGrace
       THEN /\ missed' = missed \cup {Head(pending)}
            /\ instances' = instances - 1
            /\ UNCHANGED <<running, evaluated_at, fired_for>>
       ELSE /\ evaluated_at' = Append(evaluated_at, clock)
            /\ fired_for' = Append(fired_for, Head(pending))
            /\ running' = running + 1
            /\ UNCHANGED <<missed, instances>>
    /\ UNCHANGED <<clock, next_run_time, skipped, stopped, otherVars>>

\* check_and_send_notifications returns and the executor releases the run
FinishRun ==
    /\ running > 0
    /\ running' = running - 1
    /\ instances' = instances - 1
    /\ UNCHANGED <<clock, next_run_time, pending, evaluated_at, skipped,
                   missed, fired_for, stopped, otherVars>>

\* ReminderScheduler.stop: scheduler.shutdown() when the scheduler is
\* running; the timer is cancelled and the executor cancels the tasks of
\* its submitted runs
Stop ==
    /\ ~stopped
    /\ stopped' = TRUE
    /\ pending' = << >>
    /\ running' = 0
    /\ instances' = 0
    /\ UNCHANGED <<clock, next_run_time, evaluated_at, skipped, missed,
                   fired_for, otherVars>>

NextCron == ClockTick \/ Wake \/ StartRun \/ FinishRun \/ Stop

CronSpec == Init /\ [][NextCron]_vars

\* --------------------------------------------- direct Database calls
\* a deadline as the add conversation stores it, and the values an edit
\* gives: none, only the title, or all four fields
NewDeadline == [title |-> "report", description |-> "draft",
                deadline_date |-> 630, aware |-> FALSE, weight |-> 3]
UpdateArgs ==
    { NoArgs,
      [NoArgs EXCEPT !.title = << "slides" >>],
      [title |-> << "slides" >>, description |-> << "" >>,
       deadline_date |-> << [deadline_date |-> 690, aware |-> TRUE] >>,
       weight |-> << 8 >>] }
\* readings of datetime('now') at a completion
DbTimes == {1}

\* the rows an UPDATE or DELETE ... WHERE id = ? AND user_id = ? touches
Matching(table, deadline_id, user_id) ==
    {r \in table : r.id = deadline_id /\ r.user_id = user_id}

\* complete_deadline that sets the flag but no completion time
complete_deadline_unstamped(table, deadline_id, user_id, t) ==
    [table |-> { IF r \in Matching(table, deadline_id, user_id)
                 THEN [r EXCEPT !.completed = TRUE]
                 ELSE r : r \in table },
     value |-> Matching(table, deadline_id, user_id) # {}]

\* Database.complete_deadline at datetime('now') = t: the table after the
\* UPDATE and the value returned (rowcount > 0)
complete_deadline(table, deadline_id, user_id, t) ==
    [table |-> { IF r \in Matching(table, deadline_id, user_id)
                 THEN [r EXCEPT !.completed = TRUE, !.completed_at = << t >>]
                 ELSE r : r \in table },
     value |-> Matching(table, deadline_id, user_id) # {}]

\* reopen_deadline without the owner test
reopen_deadline_any_user(table, deadline_id, user_id) ==
    [table |-> { IF r.id = deadline_id
                 THEN [r EXCEPT !.completed = FALSE, !.completed_at = << >>]
                 ELSE r : r \in table },
     value |-> \E r \in table : r.id = deadline_id]

\* Database.reopen_deadline
reopen_deadline(table, deadline_id, user_id) ==
    [table |-> { IF r \in Matching(table, deadline_id, user_id)
                 THEN [r EXCEPT !.completed = FALSE, !.completed_at = << >>]
                 ELSE r : r \in table },
     value |-> Matching(table, deadline_id, user_id) # {}]

\* Database.delete_deadline
delete_deadline(table, deadline_id, user_id) ==
    [table |-> table \ Matching(table, deadline_id, user_id),
     value |-> Matching(table, deadline_id, user_id) # {}]

\* a SET list that also clears the description when none is given
SetColumnsClearing(r, args) ==
    [r EXCEPT
       !.title = IF args.title # << >> THEN args.title[1] ELSE @,
       !.description =
           IF args.description # << >> THEN args.description[1] ELSE "",
       !.deadline_date =
           IF args.deadline_date # << >>
           THEN args.deadline_date[1].deadline_date ELSE @,
       !.aware =
           IF args.deadline_date # << >>
           THEN args.deadline_date[1].aware ELSE @,
       !.weight = IF args.weight # << >> THEN args.weight[1] ELSE @]

\* the SET list of update_deadline applied to one row: a column is set
\* when its argument is not None
SetColumns(r, args) ==
    [r EXCEPT
       !.title = IF args.title # << >> THEN args.title[1] ELSE @,
       !.description =
           IF args.description # << >> THEN args.description[1] ELSE @,
       !.deadline_date =
           IF args.deadline_date # << >>
           THEN args.deadline_date[1].deadline_date ELSE @,
       !.aware =
           IF args.deadline_date # << >>
           THEN args.deadline_date[1].aware ELSE @,
       !.weight = IF args.weight # << >> THEN args.weight[1] ELSE @]

\* Database.update_deadline: False without any argument, else the UPDATE
update_deadline(table, deadline_id, user_id, args) ==
    IF args = NoArgs
    THEN [table |-> table, value |-> FALSE]
    ELSE [table |-> { IF r \in Matching(table, deadline_id, user_id)
                      THEN SetColumns(r, args) ELSE r : r \in table },
          value |-> Matching(table, deadline_id, user_id) # {}]

\* the ids get_user_deadlines(user_id) lists (active rows only)
ActiveList(table, user_id) ==
    {r.id : r \in {d \in table : d.user_id = user_id /\ ~d.completed}}

\* the ids get_completed_deadlines(user_id) lists
CompletedList(table, user_id) ==
    {r.id : r \in {d \in table : d.user_id = user_id /\ d.completed}}

\* UPDATE users SET has_access = 1 without a WHERE clause
grant_access_everyone(user_id) == users

\* Database.grant_access: the has_access column after the UPDATE
grant_access(user_id) == access \cup ({user_id} \cap users)

\* Database.has_access: bool(result and result[0])
has_access(user_id) == user_id \in users /\ user_id \in access

restVars == <<now, notification_settings, configured, tickVars, score_calls,
              cronVars, botVars>>

\* db.add_deadline(user_id, title, description, deadline_date, weight)
CallAddDeadline(user_id, inp) ==
    /\ next_id <= MaxDeadlines
    /\ deadlines' = deadlines \cup
           { [id |-> next_id, user_id |-> user_id, title |-> inp.title,
              description |-> inp.description,
              deadline_date |-> inp.deadline_date, aware |-> inp.aware,
              weight |-> inp.weight, completed |-> FALSE,
              completed_at |-> << >>] }
    /\ next_id' = next_id + 1
    /\ returned' = [NoCall EXCEPT !.op = "add_deadline",
                       !.deadline_id = next_id, !.user_id = user_id,
                       !.value = TRUE]
    /\ UNCHANGED <<users, access, granted, restVars>>

CallCompleteDeadline(deadline_id, user_id, t) ==
    LET res == complete_deadline(deadlines, deadline_id, user_id, t)
    IN  /\ deadlines' = res.table
        /\ returned' = [NoCall EXCEPT !.op = "complete_deadline",
                           !.deadline_id = deadline_id, !.user_id = user_id,
                           !.value = res.value]
        /\ UNCHANGED <<users, next_id, access, granted, restVars>>

CallReopenDeadline(deadline_id, user_id) ==
    LET res == reopen_deadline(deadlines, deadline_id, user_id)
    IN  /\ deadlines' = res.table
        /\ returned' = [NoCall EXCEPT !.op = "reopen_deadline",
                           !.deadline_id = deadline_id, !.user_id = user_id,
                           !.value = res.value]
        /\ UNCHANGED <<users, next_id, access, granted, restVars>>

CallDeleteDeadline(deadline_id, user_id) ==
    LET res == delete_deadline(deadlines, deadline_id, user_id)
    IN  /\ deadlines' = res.table
        /\ returned' = [NoCall EXCEPT !.op = "delete_deadline",
                           !.deadline_id = deadline_id, !.user_id = user_id,
                           !.value = res.value]
        /\ UNCHANGED <<users, next_id, access, granted, restVars>>

CallUpdateDeadline(deadline_id, user_id, args) ==
    LET res == update_deadline(deadlines, deadline_id, user_id, args)
    IN  /\ deadlines' = res.table
        /\ returned' = [NoCall EXCEPT !.op = "update_deadline",
                           !.deadline_id = deadline_id, !.user_id = user_id,
                           !.args = args, !.value = res.value]
        /\ UNCHANGED <<users, next_id, access, granted, restVars>>

NextRepo ==
    \/ \E u \in Users : CallAddDeadline(u, NewDeadline)
    \/ \E id \in 1..MaxDeadlines, u \in Users, t \in DbTimes :
          CallCompleteDeadline(id, u, t)
    \/ \E id \in 1..MaxDeadlines, u \in Users : CallReopenDeadline(id, u)
    \/ \E id \in 1..MaxDeadlines, u \in Users : CallDeleteDeadline(id, u)
    \/ \E id \in 1..MaxDeadlines, u \in Users, args \in UpdateArgs :
          CallUpdateDeadline(id, u, args)

RepoSpec == Init /\ [][NextRepo]_vars

\* db.add_user(user_id, username, first_name): INSERT OR REPLACE writes a
\* fresh users row (has_access back at its default 0), INSERT OR IGNORE
\* keeps existing notification settings
CallAddUser(user_id) ==
    /\ users' = users \cup {user_id}
    /\ access' = access \ {user_id}
    /\ notification_settings' =
           IF user_id \in DOMAIN notification_settings
           THEN notification_settings
           ELSE InsertOrReplace(notification_settings, user_id,
                                DefaultSettings)
    /\ returned' = [NoCall EXCEPT !.op = "add_user", !.user_id = user_id]
    /\ UNCHANGED <<now, deadlines, next_id, configured, granted, tickVars,
                   score_calls, cronVars, botVars>>

CallGrantAccess(user_id) ==
    /\ access' = grant_access(user_id)
    /\ granted' = granted \cup {user_id}
    /\ returned' = [NoCall EXCEPT !.op = "grant_access", !.user_id = user_id]
    /\ UNCHANGED <<dbVars, tickVars, now, score_calls, cronVars, botVars>>

CallHasAccess(user_id) ==
    /\ returned' = [NoCall EXCEPT !.op = "has_access", !.user_id = user_id,
                       !.value = has_access(user_id)]
    /\ UNCHANGED <<dbVars, tickVars, now, score_calls, cronVars, access,
                   granted, botVars>>

\* ids of Telegram users who may send /start or be granted access
AccessUsers == {1, 2, 3}

NextAccess ==
    \/ \E u \in AccessUsers : CallAddUser(u)
    \/ \E u \in AccessUsers : CallGrantAccess(u)
    \/ \E u \in AccessUsers : CallHasAccess(u)

AccessSpec == Init /\ [][NextAccess]_vars

\* ------------------------------------------------ conversations of the bot
\* A text message is modelled by what its handler reads from it: a title or
\* a description is a string, a weight text is its sequence of characters, a
\* date text is one of three phrases, an access code is its parts.
TitleTexts == {"essay"}
DescriptionTexts == {"/skip"}
\* " 10", "11", "-1", "7.5" and "ten"
WeightTexts ==
    { <<" ", "1", "0">>, <<"1", "1">>, <<"-", "1">>, <<"7", ".", "5">>,
      <<"t", "e", "n">> }
\* an absolute date and a text without a date
DateTexts == {"2024-01-01 11:30", "soon"}

IsDigit(c) == \E i \in 1..Len(Digits) : Digits[i] = c
DigitValue(c) == (CHOOSE i \in 1..Len(Digits) : Digits[i] = c) - 1

RECURSIVE LStrip(_)
LStrip(text) ==
    IF text # << >> /\ Head(text) = " " THEN LStrip(Tail(text)) ELSE text
RECURSIVE RStrip(_)
RStrip(text) ==
    IF text # << >> /\ text[Len(text)] = " "
    THEN RStrip(SubSeq(text, 1, Len(text) - 1)) ELSE text
\* str.strip()
Strip(text) == RStrip(LStrip(text))

RECURSIVE DecimalValue(_, _)
DecimalValue(digits, acc) ==
    IF digits = << >> THEN acc
    ELSE DecimalValue(Tail(digits), acc * 10 + DigitValue(Head(digits)))

\* int(text) on a text without underscores: surrounding blanks, an optional
\* sign and decimal digits, ValueError for anything else
int(text) ==
    LET body == Strip(text)
        signed == body # << >> /\ Head(body) \in {"+", "-"}
        digits == IF signed THEN Tail(body) ELSE body
    IN  IF digits = << >> \/ \E i \in 1..Len(digits) : ~IsDigit(digits[i])
        THEN [raised |-> TRUE, value |-> 0]
        ELSE [raised |-> FALSE,
              value |-> IF signed /\ Head(body) = "-"
                        THEN 0 - DecimalValue(digits, 0)
                        ELSE DecimalValue(digits, 0)]

\* DeadlinerBot.parse_date at now = 0 (Monday 00:00): a relative date is
\* built from datetime.now(self.tz) and is aware, an absolute date is naive,
\* a text without a date raises ValueError
parse_date(date_text) ==
    CASE date_text = "tomorrow 10:30" ->
             [raised |-> FALSE, deadline_date |-> 2070, aware |-> TRUE]
      [] date_text = "2024-01-01 11:30" ->
             [raised |-> FALSE, deadline_date |-> 690, aware |-> FALSE]
      [] OTHER -> [raised |-> TRUE, deadline_date |-> 0, aware |-> FALSE]

\* what a handler works on besides the conversation states
Ctx == [user_data |-> user_data, deadlines |-> deadlines,
        next_id |-> next_id, access_codes |-> access_codes,
        sort_preference |-> sort_preference,
        notification_settings |-> notification_settings,
        configured |-> configured, users |-> users, access |-> access]

\* a handler that sent a message and returned a conversation state ("None"
\* when it returned nothing)
Reply(c, view, returns) ==
    [ctx |-> c, view |-> view, raised |-> FALSE, returns |-> returns,
     lines |-> << >>]
\* a handler that raised: what it wrote before stays written
Raise(c) ==
    [ctx |-> c, view |-> "none", raised |-> TRUE, returns |-> "None",
     lines |-> << >>]

\* next((d for d in get_user_deadlines(user_id) if d['id'] == deadline_id))
ActiveRow(c, user_id, deadline_id) ==
    {r \in c.deadlines :
        r.id = deadline_id /\ r.user_id = user_id /\ ~r.completed}

\* context.user_data.get('edit_deadline_id'): None matches no row
EditId(c) ==
    IF c.user_data.edit_deadline_id = << >> THEN 0
    ELSE c.user_data.edit_deadline_id[1]

\* self.db.update_deadline(deadline_id, user_id, ...) inside a handler
Updated(c, user_id, args) ==
    update_deadline(c.deadlines, EditId(c), user_id, args)

start_add_deadline(c, user_id) == Reply(c, "ask_title", "ADD_TITLE")

add_title(c, user_id, text) ==
    Reply([c EXCEPT !.user_data.title = << text >>],
          "ask_description", "ADD_DESCRIPTION")

add_description(c, user_id, text) ==
    Reply([c EXCEPT !.user_data.description =
                        << IF text = "/skip" THEN "" ELSE text >>],
          "ask_date", "ADD_DATE")

add_date(c, user_id, date_text) ==
    LET d == parse_date(date_text)
    IN  IF d.raised THEN Reply(c, "date_not_recognised", "ADD_DATE")
        ELSE Reply([c EXCEPT !.user_data.deadline_date =
                                 << [deadline_date |-> d.deadline_date,
                                     aware |-> d.aware] >>],
                   "ask_weight", "ADD_WEIGHT")

\* the row db.add_deadline inserts
NewRow(c, user_id, title, description, date, weight) ==
    [id |-> c.next_id, user_id |-> user_id, title |-> title,
     description |-> description, deadline_date |-> date.deadline_date,
     aware |-> date.aware, weight |-> weight, completed |-> FALSE,
     completed_at |-> << >>]

\* add_weight that stores the nearest weight of 0..10 instead of asking again
add_weight_clamping(c, user_id, text) ==
    LET weight == int(text)
        ud == c.user_data
        stored == IF weight.value < 0 THEN 0
                  ELSE IF weight.value > 10 THEN 10 ELSE weight.value
    IN  IF weight.raised THEN Reply(c, "ask_number", "ADD_WEIGHT")
        ELSE IF ud.title = << >> \/ ud.description = << >>
                \/ ud.deadline_date = << >>
        THEN Raise(c)
        ELSE LET saved ==
                   [c EXCEPT
                      !.deadlines = @ \cup
                          { NewRow(c, user_id, ud.title[1], ud.description[1],
                                   ud.deadline_date[1], stored) },
                      !.next_id = @ + 1,
                      !.user_data = NoData]
             IN  IF get_importance_description(
                        stored, ud.deadline_date[1].deadline_date,
                        ud.deadline_date[1].aware, now).raised
                 THEN Raise(saved)
                 ELSE Reply(saved, "created", "END")

\* DeadlinerBot.add_weight: ValueError and a weight outside 0..10 ask again;
\* a missing user_data key raises KeyError; the row is saved and user_data
\* cleared before the importance description is computed
add_weight(c, user_id, text) ==
    LET weight == int(text)
        ud == c.user_data
    IN  IF weight.raised THEN Reply(c, "ask_number", "ADD_WEIGHT")
        ELSE IF weight.value < 0 \/ weight.value > 10
        THEN Reply(c, "weight_out_of_range", "ADD_WEIGHT")
        ELSE IF ud.title = << >> \/ ud.description = << >>
                \/ ud.deadline_date = << >>
        THEN Raise(c)
        ELSE LET saved ==
                   [c EXCEPT
                      !.deadlines = @ \cup
                          { NewRow(c, user_id, ud.title[1], ud.description[1],
                                   ud.deadline_date[1], weight.value) },
                      !.next_id = @ + 1,
                      !.user_data = NoData]
             IN  IF get_importance_description(
                        weight.value, ud.deadline_date[1].deadline_date,
                        ud.deadline_date[1].aware, now).raised
                 THEN Raise(saved)
                 ELSE Reply(saved, "created", "END")

\* DeadlinerBot.edit_deadlines: the list of deadlines to pick from
edit_deadlines(c, user_id) == Reply(c, "edit_list", "None")

\* DeadlinerBot.deadline_detail: the date is made aware before
\* get_importance_description subtracts the naive datetime.now() from it; a
\* missing deadline is subscripted before it is tested
deadline_detail(c, user_id, deadline_id) ==
    IF ActiveRow(c, user_id, deadline_id) = {} THEN Raise(c)
    ELSE LET r == CHOOSE r \in ActiveRow(c, user_id, deadline_id) : TRUE
         IN  IF get_importance_description(r.weight, r.deadline_date, TRUE,
                                           now).raised
             THEN Raise(c)
             ELSE Reply(c, "detail", "None")

\* DeadlinerBot.show_edit_options: the menu with the four edit buttons
show_edit_options(c, user_id, deadline_id) ==
    IF ActiveRow(c, user_id, deadline_id) = {}
    THEN edit_deadlines(c, user_id)
    ELSE Reply([c EXCEPT !.user_data.edit_deadline_id = << deadline_id >>],
               "edit_options", "None")

\* start_edit_title, start_edit_description, start_edit_date and
\* start_edit_weight_only differ in the field and the state they return
StartEditField(c, user_id, deadline_id, field, state) ==
    IF ActiveRow(c, user_id, deadline_id) = {}
    THEN show_edit_options(c, user_id, deadline_id)
    ELSE Reply([c EXCEPT !.user_data.edit_deadline_id = << deadline_id >>,
                         !.user_data.editing_field = << field >>],
               "ask_" \o field, state)

start_edit_title(c, user_id, deadline_id) ==
    StartEditField(c, user_id, deadline_id, "title", "EDIT_TITLE")
start_edit_description(c, user_id, deadline_id) ==
    StartEditField(c, user_id, deadline_id, "description", "EDIT_DESCRIPTION")
start_edit_date(c, user_id, deadline_id) ==
    StartEditField(c, user_id, deadline_id, "date", "EDIT_DATE")
start_edit_weight_only(c, user_id, deadline_id) ==
    StartEditField(c, user_id, deadline_id, "weight", "EDIT_WEIGHT")

\* DeadlinerBot.edit_deadline_weight, reached through start_edit_deadline:
\* the prompt for a new importance alone
edit_deadline_weight(c, user_id, deadline_id) ==
    IF ActiveRow(c, user_id, deadline_id) = {}
    THEN edit_deadlines(c, user_id)
    ELSE Reply([c EXCEPT !.user_data.edit_deadline_id = << deadline_id >>],
               "ask_importance_only", "EDIT_DEADLINE")

start_edit_deadline(c, user_id, deadline_id) ==
    edit_deadline_weight(c, user_id, deadline_id)

\* a single-field save: update, clear user_data, end the conversation
SaveField(c, user_id, args) ==
    Reply([c EXCEPT !.deadlines = Updated(c, user_id, args).table,
                    !.user_data = NoData],
          IF Updated(c, user_id, args).value THEN "changed" ELSE "failed",
          "END")

edit_title(c, user_id, text) ==
    IF c.user_data.editing_field = << "title" >>
    THEN SaveField(c, user_id, [NoArgs EXCEPT !.title = << text >>])
    ELSE Reply([c EXCEPT !.user_data.title = << text >>],
               "ask_description", "EDIT_DESCRIPTION")

edit_description(c, user_id, text) ==
    LET new_description == IF text = "/skip" THEN "" ELSE text
    IN  IF c.user_data.editing_field = << "description" >>
        THEN SaveField(c, user_id,
                       [NoArgs EXCEPT !.description = << new_description >>])
        ELSE Reply([c EXCEPT !.user_data.description = << new_description >>],
                   "ask_weight", "EDIT_WEIGHT")

edit_weight(c, user_id, text) ==
    LET weight == int(text)
    IN  IF weight.raised THEN Reply(c, "ask_number", "EDIT_WEIGHT")
        ELSE IF weight.value < 0 \/ weight.value > 10
        THEN Reply(c, "weight_out_of_range", "EDIT_WEIGHT")
        ELSE IF c.user_data.editing_field = << "weight" >>
        THEN SaveField(c, user_id,
                       [NoArgs EXCEPT !.weight = << weight.value >>])
        ELSE Reply([c EXCEPT !.user_data.weight = << weight.value >>],
                   "ask_date", "EDIT_DATE")

\* DeadlinerBot.edit_date: a single-field save, or the end of the full flow
\* that reads title, description and weight from user_data (KeyError when
\* one is missing) and describes the importance after the update
edit_date(c, user_id, date_text) ==
    LET d == parse_date(date_text)
        date == [deadline_date |-> d.deadline_date, aware |-> d.aware]
        dated == [c EXCEPT !.user_data.deadline_date = << date >>]
        ud == c.user_data
        args == [title |-> ud.title, description |-> ud.description,
                 deadline_date |-> << date >>, weight |-> ud.weight]
    IN  IF d.raised THEN Reply(c, "date_not_recognised", "EDIT_DATE")
        ELSE IF ud.editing_field = << "date" >>
        THEN SaveField(c, user_id,
                       [NoArgs EXCEPT !.deadline_date = << date >>])
        ELSE IF ud.title = << >> \/ ud.description = << >>
                \/ ud.weight = << >>
        THEN Raise(dated)
        ELSE IF ~Updated(c, user_id, args).value
        THEN Reply([c EXCEPT !.user_data = NoData], "failed", "END")
        ELSE IF get_importance_description(ud.weight[1], d.deadline_date,
                                           d.aware, now).raised
        THEN Raise([dated EXCEPT
                      !.deadlines = Updated(c, user_id, args).table])
        ELSE Reply([c EXCEPT !.deadlines = Updated(c, user_id, args).table,
                             !.user_data = NoData],
                   "changed", "END")

save_deadline_weight(c, user_id, text) ==
    LET weight == int(text)
        args == [NoArgs EXCEPT !.weight = << weight.value >>]
    IN  IF weight.raised THEN Reply(c, "ask_number", "EDIT_DEADLINE")
        ELSE IF weight.value < 0 \/ weight.value > 10
        THEN Reply(c, "weight_out_of_range", "EDIT_DEADLINE")
        ELSE IF c.user_data.edit_deadline_id = << >>
        THEN Reply(c, "failed", "END")
        ELSE SaveField(c, user_id, args)

\* DeadlinerBot.start: db.add_user writes a fresh users row and default
\* notification settings where there are none, then the main menu is shown;
\* nothing is returned
start(c, user_id) ==
    Reply([c EXCEPT
             !.users = @ \cup {user_id},
             !.access = @ \ {user_id},
             !.notification_settings =
                 IF user_id \in DOMAIN @ THEN @
                 ELSE InsertOrReplace(@, user_id, DefaultSettings)],
          "main_menu", "None")

\* DeadlinerBot.add_deadline_back
add_deadline_back(c, user_id) ==
    [start([c EXCEPT !.user_data = NoData], user_id) EXCEPT !.returns = "END"]

\* DeadlinerBot.cancel
cancel(c, user_id) == Reply([c EXCEPT !.user_data = NoData], "cancelled", "END")

\* the entries generate_access_code encodes: the user's active deadlines in
\* the order of get_user_deadlines
RECURSIVE DeadlineData(_)
DeadlineData(rows) ==
    IF rows = << >> THEN << >>
    ELSE << [title |-> Head(rows).title,
             description |-> Head(rows).description,
             deadline_date |-> Head(rows).deadline_date,
             aware |-> Head(rows).aware,
             weight |-> Head(rows).weight] >> \o DeadlineData(Tail(rows))

\* len(str(n)) of a number that is not negative
RECURSIVE DecimalDigits(_)
DecimalDigits(n) == IF n < 10 THEN 1 ELSE 1 + DecimalDigits(n \div 10)

\* len(json.dumps(entry, ensure_ascii=False)) of one entry whose texts are
\* ASCII without characters to escape: the keys and separators, the texts,
\* the ISO date (with its offset when aware) and the weight
EntryLen(entry) ==
    11 + Len(entry.title) + 19 + Len(entry.description) + 21
       + (IF entry.aware THEN 25 ELSE 19) + 13 + DecimalDigits(entry.weight)
       + 1
\* len(json.dumps(deadline_data)) without its two brackets: the entries and
\* ", " between them
RECURSIVE EntriesLen(_)
EntriesLen(data) ==
    IF data = << >> THEN 0
    ELSE EntryLen(Head(data)) + (IF Len(data) > 1 THEN 2 ELSE 0)
             + EntriesLen(Tail(data))
\* len(base64.b64encode(bytes)) of n bytes
Base64Len(n) == 4 * ((n + 2) \div 3)
\* len(f"DL{data_hash}{code_length:04d}"): 2, the 12 characters of the
\* digest and the length in at least 4 digits
CodeLength(data) ==
    LET code_length == Base64Len(2 + EntriesLen(data))
    IN  2 + 12 + (IF DecimalDigits(code_length) < 4 THEN 4
                  ELSE DecimalDigits(code_length))

\* the access code of a data: "DL", a digest of the data, its length
AccessCode(data) ==
    [prefix |-> "DL", length |-> CodeLength(data), data |-> data]

generate_access_code(c, user_id) ==
    LET data == DeadlineData(OrderByDate(
                    {r \in c.deadlines : r.user_id = user_id /\ ~r.completed}))
    IN  IF data = << >> THEN Reply(c, "no_deadlines", "None")
        ELSE Reply([c EXCEPT !.access_codes = @ \cup {AccessCode(data)}],
                   "code_created", "None")

prompt_access_code(c, user_id) ==
    Reply(c, "ask_code", "ENTER_ACCESS_CODE")

\* the rows import_deadlines_from_code adds: every date is made aware
RECURSIVE Imported(_, _, _)
Imported(data, user_id, first_id) ==
    IF data = << >> THEN {}
    ELSE { [id |-> first_id, user_id |-> user_id, title |-> Head(data).title,
            description |-> Head(data).description,
            deadline_date |-> Head(data).deadline_date, aware |-> TRUE,
            weight |-> Head(data).weight, completed |-> FALSE,
            completed_at |-> << >>] }
         \cup Imported(Tail(data), user_id, first_id + 1)

import_deadlines_from_code(c, user_id, access_code) ==
    IF access_code.prefix # "DL" \/ access_code.length # 18
    THEN Reply(c, "bad_format", "ENTER_ACCESS_CODE")
    ELSE IF access_code \notin c.access_codes
    THEN Reply(c, "code_not_found", "ENTER_ACCESS_CODE")
    ELSE Reply([c EXCEPT
                  !.deadlines =
                      @ \cup Imported(access_code.data, user_id, c.next_id),
                  !.next_id = @ + Len(access_code.data)],
               "imported", "END")

\* sorted(rows, key=key): a stable insertion sort of a sequence of rows by
\* the integer key[id] of each row
RECURSIVE InsertByKey(_, _, _)
InsertByKey(sorted, r, key) ==
    IF sorted = << >> THEN << r >>
    ELSE IF key[Head(sorted).id] <= key[r.id]
    THEN << Head(sorted) >> \o InsertByKey(Tail(sorted), r, key)
    ELSE << r >> \o sorted
RECURSIVE SortedByKey(_, _)
SortedByKey(rows, key) ==
    IF rows = << >> THEN << >>
    ELSE InsertByKey(SortedByKey(SubSeq(rows, 1, Len(rows) - 1), key),
                     rows[Len(rows)], key)
\* sorted(rows, key=key, reverse=True): descending, equal keys keep their
\* order
RECURSIVE Reversed(_)
Reversed(rows) ==
    IF rows = << >> THEN << >> ELSE Reversed(Tail(rows)) \o << Head(rows) >>
SortedByKeyReverse(rows, key) ==
    Reversed(SortedByKey(Reversed(rows), key))

RECURSIVE Ids(_)
Ids(rows) == IF rows = << >> THEN << >> ELSE << Head(rows).id >> \o Ids(Tail(rows))

\* the importance score of each row of a sequence, and whether computing
\* one of them raises
ScoreKey(rows, made_aware) ==
    [id \in {rows[i].id : i \in 1..Len(rows)} |->
        LET r == CHOOSE r \in {rows[i] : i \in 1..Len(rows)} : r.id = id
        IN  calculate_importance_score(r.weight, r.deadline_date,
                                       r.aware \/ made_aware, now)]
ScoreRaises(rows, made_aware) ==
    \E i \in 1..Len(rows) : ScoreKey(rows, made_aware)[rows[i].id].raised
ScoreValue(rows, made_aware) ==
    [id \in DOMAIN ScoreKey(rows, made_aware) |->
        ScoreKey(rows, made_aware)[id].value]

\* importance_calculator.sort_deadlines_by_importance
sort_deadlines_by_importance(rows, made_aware) ==
    IF ScoreRaises(rows, made_aware) THEN [raised |-> TRUE, rows |-> << >>]
    ELSE [raised |-> FALSE,
          rows |-> SortedByKeyReverse(rows, ScoreValue(rows, made_aware))]

\* abs((d['deadline_date'] - now).total_seconds())
TimeKey(rows) ==
    [id \in {rows[i].id : i \in 1..Len(rows)} |->
        LET r == CHOOSE r \in {rows[i] : i \in 1..Len(rows)} : r.id = id
        IN  IF r.deadline_date >= now THEN r.deadline_date - now
            ELSE now - r.deadline_date]

\* sort_deadlines_group of list_deadlines, whose dates were all made aware
sort_deadlines_group(group, sort_by) ==
    CASE sort_by = "time_asc" ->
             [raised |-> FALSE, rows |-> SortedByKey(group, TimeKey(group))]
      [] sort_by = "time_desc" ->
             [raised |-> FALSE,
              rows |-> SortedByKeyReverse(group, TimeKey(group))]
      [] sort_by = "importance_asc" ->
             IF ScoreRaises(group, TRUE)
             THEN [raised |-> TRUE, rows |-> << >>]
             ELSE [raised |-> FALSE,
                   rows |-> SortedByKey(group, ScoreValue(group, TRUE))]
      [] sort_by = "importance_desc" ->
             sort_deadlines_by_importance(group, TRUE)
      [] OTHER -> [raised |-> FALSE, rows |-> group]

\* the members of a sequence of rows that satisfy a test on the date
RECURSIVE Overdue(_, _)
Overdue(rows, wanted) ==
    IF rows = << >> THEN << >>
    ELSE (IF (Head(rows).deadline_date < now) = wanted
          THEN << Head(rows) >> ELSE << >>) \o Overdue(Tail(rows), wanted)

\* the user's active deadlines as get_user_deadlines returns them
ActiveRows(c, user_id) ==
    OrderByDate({r \in c.deadlines : r.user_id = user_id /\ ~r.completed})

\* DeadlinerBot.list_deadlines: a given sort_by is saved first; the overdue
\* group is shown before the others, each sorted by sort_by
list_deadlines(c, user_id, sort_by) ==
    LET chosen == IF sort_by = << >> THEN c.sort_preference ELSE sort_by[1]
        saved == [c EXCEPT !.sort_preference = chosen]
        rows == ActiveRows(c, user_id)
        overdue_deadlines == sort_deadlines_group(Overdue(rows, TRUE), chosen)
        regular_deadlines == sort_deadlines_group(Overdue(rows, FALSE), chosen)
    IN  IF rows = << >>
        THEN [Reply(saved, "list_empty", "None") EXCEPT !.lines = << >>]
        ELSE IF overdue_deadlines.raised \/ regular_deadlines.raised
        THEN Raise(saved)
        ELSE [Reply(saved, "list", "None") EXCEPT
                !.lines = Ids(overdue_deadlines.rows)
                          \o Ids(regular_deadlines.rows)]

\* DeadlinerBot.export_deadlines: both branches of the preference test
\* sort by importance, on the dates as the database returned them
export_deadlines(c, user_id) ==
    LET rows == ActiveRows(c, user_id)
        sorted == IF c.sort_preference = "importance_desc"
                  THEN sort_deadlines_by_importance(rows, FALSE)
                  ELSE sort_deadlines_by_importance(rows, FALSE)
    IN  IF rows = << >> THEN Reply(c, "export_empty", "None")
        ELSE IF sorted.raised THEN Raise(c)
        ELSE [Reply(c, "export", "None") EXCEPT !.lines = Ids(sorted.rows)]

\* DeadlinerBot.edit_deadline_back: user_data is cleared, the detail view
\* is shown and its result (None) returned
edit_deadline_back(c, user_id, deadline_id) ==
    deadline_detail([c EXCEPT !.user_data = NoData], user_id, deadline_id)

\* DeadlinerBot.deadline_detail_from_edit
deadline_detail_from_edit(c, user_id, deadline_id) ==
    LET detail == deadline_detail([c EXCEPT !.user_data = NoData], user_id,
                                  deadline_id)
    IN  IF detail.raised THEN detail ELSE [detail EXCEPT !.returns = "END"]

\* ------------------------------------------------ notification preferences
\* str.split(sep): the pieces of text between the separators
RECURSIVE Split(_, _)
Split(text, sep) ==
    IF \A i \in 1..Len(text) : text[i] # sep THEN << text >>
    ELSE LET i == CHOOSE k \in 1..Len(text) :
                      text[k] = sep /\ \A j \in 1..(k - 1) : text[j] # sep
         IN  << SubSeq(text, 1, i - 1) >>
             \o Split(SubSeq(text, i + 1, Len(text)), sep)

\* the body of the for loop of save_notification_times for one entry:
\* ValueError, or the entry formatted as f"{hour:02d}:{minute:02d}"
FormattedTime(time_str) ==
    LET parts == Split(time_str, ":")
        hour == int(parts[1])
        minute == int(parts[2])
    IN  IF Len(parts) # 2 THEN [raised |-> TRUE, value |-> ""]
        ELSE IF hour.raised \/ minute.raised
        THEN [raised |-> TRUE, value |-> ""]
        ELSE IF hour.value < 0 \/ hour.value > 23
                \/ minute.value < 0 \/ minute.value > 59
        THEN [raised |-> TRUE, value |-> ""]
        ELSE [raised |-> FALSE,
              value |-> Pad2(hour.value) \o ":" \o Pad2(minute.value)]

\* self.db.get_user_notification_settings(user_id)
SettingsOf(c, user_id) ==
    IF user_id \in DOMAIN c.notification_settings
    THEN c.notification_settings[user_id]
    ELSE DefaultSettings

\* DeadlinerBot.set_notification_times
set_notification_times(c, user_id) ==
    Reply(c, "ask_times", "SET_NOTIFICATION_TIME")

\* save_notification_times that saves the entries it could format and
\* skips the others
save_notification_times_lenient(c, user_id, times_text) ==
    LET time_strings == Split(Strip(times_text), ",")
        formatted == [i \in 1..Len(time_strings) |->
                         FormattedTime(Strip(time_strings[i]))]
        valid_times == [i \in 1..Len(time_strings) |-> formatted[i].value]
        settings == SettingsOf(c, user_id)
    IN  Reply([c EXCEPT
                     !.notification_settings =
                         InsertOrReplace(@, user_id,
                             [times |-> SelectSeq(valid_times,
                                            LAMBDA v : v # ""),
                              days |-> settings.days]),
                     !.configured = @ \cup {user_id},
                     !.user_data = NoData],
                  "notification_settings", "END")

\* DeadlinerBot.save_notification_times: a ValueError of any entry asks
\* again before anything is stored; otherwise the formatted times are
\* stored with the days read back from the table
save_notification_times(c, user_id, times_text) ==
    LET time_strings == Split(Strip(times_text), ",")
        formatted == [i \in 1..Len(time_strings) |->
                         FormattedTime(Strip(time_strings[i]))]
        valid_times == [i \in 1..Len(time_strings) |-> formatted[i].value]
        settings == SettingsOf(c, user_id)
    IN  IF \E i \in 1..Len(time_strings) : formatted[i].raised
        THEN Reply(c, "bad_times", "SET_NOTIFICATION_TIME")
        ELSE Reply([c EXCEPT
                     !.notification_settings =
                         InsertOrReplace(@, user_id,
                             [times |-> valid_times, days |-> settings.days]),
                     !.configured = @ \cup {user_id},
                     !.user_data = NoData],
                  "notification_settings", "END")

\* settings['days'].remove(day): the list without the first day
RECURSIVE Remove(_, _)
Remove(list, day) ==
    IF list = << >> THEN << >>
    ELSE IF Head(list) = day THEN Tail(list)
    ELSE << Head(list) >> \o Remove(Tail(list), day)

\* toggle_notification_day that rewrites the times with their defaults
toggle_notification_day_resetting(c, user_id, day) ==
    LET settings == SettingsOf(c, user_id)
        days == IF InList(day, settings.days) THEN Remove(settings.days, day)
                ELSE Append(settings.days, day)
    IN  Reply([c EXCEPT
                 !.notification_settings =
                     InsertOrReplace(@, user_id,
                         [times |-> DefaultSettings.times, days |-> days]),
                 !.configured = @ \cup {user_id}],
              "days", "None")

\* DeadlinerBot.toggle_notification_day
toggle_notification_day(c, user_id, day) ==
    LET settings == SettingsOf(c, user_id)
        days == IF InList(day, settings.days) THEN Remove(settings.days, day)
                ELSE Append(settings.days, day)
    IN  Reply([c EXCEPT
                 !.notification_settings =
                     InsertOrReplace(@, user_id,
                         [times |-> settings.times, days |-> days]),
                 !.configured = @ \cup {user_id}],
              "days", "None")

\* --------------------------------------------------- dispatch of updates
\* callback data is the sequence of its parts between underscores
StartsWith(data, prefix) ==
    Len(data) > Len(prefix) /\ SubSeq(data, 1, Len(prefix)) = prefix
\* re.match(r"^<prefix>_\d+$", data) for ids of one digit
MatchesId(data, prefix) ==
    /\ Len(data) = Len(prefix) + 1
    /\ SubSeq(data, 1, Len(prefix)) = prefix
    /\ IsDigit(data[Len(data)])
\* int(query.data.split("_")[k])
IdPart(data, k) == int(<< data[k] >>).value

\* the elif chain of DeadlinerBot.button_handler
button_handler(data) ==
    CASE data = <<"main", "menu">> -> "start"
      [] data = <<"add", "deadline">> -> "start_add_deadline"
      [] data = <<"list", "deadlines">> -> "list_deadlines"
      [] data = <<"export", "deadlines">> -> "export_deadlines"
      [] data = <<"generate", "access", "code">> -> "generate_access_code"
      [] data = <<"enter", "code">> -> "prompt_access_code"
      [] StartsWith(data, <<"sort">>) -> "sort"
      [] StartsWith(data, <<"detail">>) -> "deadline_detail"
      [] StartsWith(data, <<"edit", "title">>) -> "start_edit_title"
      [] StartsWith(data, <<"edit", "desc">>) -> "start_edit_description"
      [] StartsWith(data, <<"edit", "date">>) -> "start_edit_date"
      [] StartsWith(data, <<"edit", "weight">>) -> "start_edit_weight_only"
      [] StartsWith(data, <<"edit">>) -> "show_edit_options"
      [] StartsWith(data, <<"toggle", "day">>) -> "toggle_notification_day"
      [] OTHER -> "none"

\* the handler of group 0 that takes a callback query, and the conversation
\* whose state its return value sets: add_deadline_conv,
\* notification_time_conv, edit_deadline_conv and access_code_conv are
\* asked in this order, button_handler last; a
\* conversation the chat is in offers the handlers of its state, another
\* one its entry points
Route(cv, data) ==
    IF cv.add = "END" /\ data = <<"add", "deadline">>
    THEN [handler |-> "start_add_deadline", conversation |-> "add"]
    ELSE IF cv.add = "ADD_TITLE" /\ data = <<"main", "menu">>
    THEN [handler |-> "add_deadline_back", conversation |-> "add"]
    ELSE IF cv.times = "END" /\ data = <<"set", "notification", "times">>
    THEN [handler |-> "set_notification_times", conversation |-> "times"]
    ELSE IF cv.edit = "END" /\ MatchesId(data, <<"edit">>)
    THEN [handler |-> "start_edit_deadline", conversation |-> "edit"]
    ELSE IF cv.edit = "END" /\ MatchesId(data, <<"edit", "title">>)
    THEN [handler |-> "start_edit_title", conversation |-> "edit"]
    ELSE IF cv.edit = "END" /\ MatchesId(data, <<"edit", "desc">>)
    THEN [handler |-> "start_edit_description", conversation |-> "edit"]
    ELSE IF cv.edit = "END" /\ MatchesId(data, <<"edit", "date">>)
    THEN [handler |-> "start_edit_date", conversation |-> "edit"]
    ELSE IF cv.edit = "END" /\ MatchesId(data, <<"edit", "weight">>)
    THEN [handler |-> "start_edit_weight_only", conversation |-> "edit"]
    ELSE IF cv.edit = "EDIT_DEADLINE" /\ StartsWith(data, <<"detail">>)
    THEN [handler |-> "edit_deadline_back", conversation |-> "edit"]
    ELSE IF cv.edit = "EDIT_TITLE" /\ StartsWith(data, <<"detail">>)
    THEN [handler |-> "deadline_detail_from_edit", conversation |-> "edit"]
    ELSE IF cv.code = "END" /\ data = <<"enter", "code">>
    THEN [handler |-> "prompt_access_code", conversation |-> "code"]
    ELSE [handler |-> button_handler(data), conversation |-> "none"]

\* the call a routed callback query makes
HandleCallback(handler, c, user_id, data) ==
    CASE handler = "start_add_deadline" -> start_add_deadline(c, user_id)
      [] handler = "start" -> start(c, user_id)
      [] handler = "add_deadline_back" -> add_deadline_back(c, user_id)
      [] handler = "start_edit_deadline" ->
             start_edit_deadline(c, user_id, IdPart(data, 2))
      [] handler = "show_edit_options" ->
             show_edit_options(c, user_id, IdPart(data, 2))
      [] handler = "start_edit_title" ->
             start_edit_title(c, user_id, IdPart(data, 3))
      [] handler = "start_edit_description" ->
             start_edit_description(c, user_id, IdPart(data, 3))
      [] handler = "start_edit_date" ->
             start_edit_date(c, user_id, IdPart(data, 3))
      [] handler = "start_edit_weight_only" ->
             start_edit_weight_only(c, user_id, IdPart(data, 3))
      [] handler = "deadline_detail" ->
             deadline_detail(c, user_id, IdPart(data, 2))
      [] handler = "edit_deadline_back" ->
             edit_deadline_back(c, user_id, IdPart(data, 2))
      [] handler = "deadline_detail_from_edit" ->
             deadline_detail_from_edit(c, user_id, IdPart(data, 2))
      [] handler = "generate_access_code" -> generate_access_code(c, user_id)
      [] handler = "prompt_access_code" -> prompt_access_code(c, user_id)
      [] handler = "list_deadlines" -> list_deadlines(c, user_id, << >>)
      [] handler = "sort" ->
             list_deadlines(c, user_id, << data[2] \o "_" \o data[3] >>)
      [] handler = "export_deadlines" -> export_deadlines(c, user_id)
      [] handler = "set_notification_times" ->
             set_notification_times(c, user_id)
      [] handler = "toggle_notification_day" ->
             toggle_notification_day(c, user_id, IdPart(data, 3))

\* the handler of group 0 that takes a text message: the first conversation
\* the chat is in, every state of which has a text handler
TextRoute(cv) ==
    IF cv.add # "END"
    THEN [handler |-> CASE cv.add = "ADD_TITLE" -> "add_title"
                        [] cv.add = "ADD_DESCRIPTION" -> "add_description"
                        [] cv.add = "ADD_DATE" -> "add_date"
                        [] cv.add = "ADD_WEIGHT" -> "add_weight",
          conversation |-> "add"]
    ELSE IF cv.times # "END"
    THEN [handler |-> "save_notification_times", conversation |-> "times"]
    ELSE IF cv.edit # "END"
    THEN [handler |-> CASE cv.edit = "EDIT_DEADLINE" -> "save_deadline_weight"
                        [] cv.edit = "EDIT_TITLE" -> "edit_title"
                        [] cv.edit = "EDIT_DESCRIPTION" -> "edit_description"
                        [] cv.edit = "EDIT_WEIGHT" -> "edit_weight"
                        [] cv.edit = "EDIT_DATE" -> "edit_date",
          conversation |-> "edit"]
    ELSE IF cv.code # "END"
    THEN [handler |-> "import_deadlines_from_code", conversation |-> "code"]
    ELSE [handler |-> "none", conversation |-> "none"]

\* the framework stores what a handler of a conversation returned, unless
\* it raised or returned None; what the handler wrote is kept either way,
\* and a handler that raised sent no message
Apply(result, conversation) ==
    /\ result.ctx.next_id <= MaxDeadlines + 1
    /\ conv' = IF conversation = "none" \/ result.raised
                  \/ result.returns = "None"
               THEN conv
               ELSE [conv EXCEPT ![conversation] = result.returns]
    /\ user_data' = result.ctx.user_data
    /\ deadlines' = result.ctx.deadlines
    /\ next_id' = result.ctx.next_id
    /\ access_codes' = result.ctx.access_codes
    /\ sort_preference' = result.ctx.sort_preference
    /\ notification_settings' = result.ctx.notification_settings
    /\ configured' = result.ctx.configured
    /\ users' = result.ctx.users
    /\ access' = result.ctx.access
    /\ shown' = IF result.raised THEN shown
                ELSE [view |-> result.view, lines |-> result.lines]
    /\ UNCHANGED <<now, tickVars, score_calls, cronVars, granted, returned>>

\* a callback query with the given data arrives
Press(user_id, data) ==
    /\ Route(conv, data).handler # "none"
    /\ Apply(HandleCallback(Route(conv, data).handler, Ctx, user_id, data),
             Route(conv, data).conversation)

SendTitle(user_id, text) ==
    \/ /\ TextRoute(conv).handler = "add_title"
       /\ Apply(add_title(Ctx, user_id, text), "add")
    \/ /\ TextRoute(conv).handler = "edit_title"
       /\ Apply(edit_title(Ctx, user_id, text), "edit")

SendDescription(user_id, text) ==
    \/ /\ TextRoute(conv).handler = "add_description"
       /\ Apply(add_description(Ctx, user_id, text), "add")
    \/ /\ TextRoute(conv).handler = "edit_description"
       /\ Apply(edit_description(Ctx, user_id, text), "edit")

SendDate(user_id, date_text) ==
    \/ /\ TextRoute(conv).handler = "add_date"
       /\ Apply(add_date(Ctx, user_id, date_text), "add")
    \/ /\ TextRoute(conv).handler = "edit_date"
       /\ Apply(edit_date(Ctx, user_id, date_text), "edit")

SendWeight(user_id, text) ==
    \/ /\ TextRoute(conv).handler = "add_weight"
       /\ Apply(add_weight(Ctx, user_id, text), "add")
    \/ /\ TextRoute(conv).handler = "edit_weight"
       /\ Apply(edit_weight(Ctx, user_id, text), "edit")
    \/ /\ TextRoute(conv).handler = "save_deadline_weight"
       /\ Apply(save_deadline_weight(Ctx, user_id, text), "edit")

SendCode(user_id, access_code) ==
    /\ TextRoute(conv).handler = "import_deadlines_from_code"
    /\ Apply(import_deadlines_from_code(Ctx, user_id, access_code), "code")

\* /cancel is a fallback of add_deadline_conv and edit_deadline_conv; in
\* the description states the text handler takes commands too
SendCancel(user_id) ==
    /\ TextRoute(conv).conversation \in {"add", "edit"}
    /\ TextRoute(conv).handler \notin {"add_description", "edit_description"}
    /\ Apply(cancel(Ctx, user_id), TextRoute(conv).conversation)

\* the chat of one user
BotUsers == {1}
\* callback data of the buttons the handlers above put on their messages
EditData ==
    { <<"edit", id>> : id \in {"1", "2", "3"} }
    \cup { <<"detail", id>> : id \in {"1", "2", "3"} }
    \cup { <<"edit", field, id>> :
              field \in {"title", "desc", "date", "weight"},
              id \in {"1", "2", "3"} }
CodeInputs ==
    access_codes \cup {AccessCode(<< >>),
                       [prefix |-> "XX", length |-> 18, data |-> << >>]}

\* the chat starts a conversation only when it is in none
Enters(data) ==
    /\ Route(conv, data).conversation # "none"
    /\ conv[Route(conv, data).conversation] = "END"
OneAtATime(data) == Enters(data) => conv = NoConversation

NextBot ==
    \/ \E u \in BotUsers :
          OneAtATime(<<"add", "deadline">>) /\ Press(u, <<"add", "deadline">>)
    \/ \E u \in BotUsers, data \in EditData :
          OneAtATime(data) /\ Press(u, data)
    \/ \E u \in BotUsers :
          /\ Cardinality(access_codes) < MaxCodes
          /\ Press(u, <<"generate", "access", "code">>)
    \/ \E u \in BotUsers :
          OneAtATime(<<"enter", "code">>) /\ Press(u, <<"enter", "code">>)
    \/ \E u \in BotUsers, text \in TitleTexts : SendTitle(u, text)
    \/ \E u \in BotUsers, text \in DescriptionTexts : SendDescription(u, text)
    \/ \E u \in BotUsers, text \in DateTexts : SendDate(u, text)
    \/ \E u \in BotUsers, text \in WeightTexts : SendWeight(u, text)
    \/ \E u \in BotUsers, code \in CodeInputs : SendCode(u, code)
    \/ \E u \in BotUsers : SendCancel(u)

BotSpec == Init /\ [][NextBot]_vars

\* ------------------------------------------------ the list and the export
\* deadlines of different importance and date, one of them with an aware
\* date as an import stores it
ListedDeadlines ==
    { [title |-> "essay", description |-> "", deadline_date |-> 690,
       aware |-> FALSE, weight |-> 0],
      [title |-> "exam", description |-> "", deadline_date |-> 2070,
       aware |-> FALSE, weight |-> 10],
      [title |-> "report", description |-> "draft", deadline_date |-> 630,
       aware |-> TRUE, weight |-> 3] }
\* callback data of the list view's sort buttons
SortData ==
    { <<"sort", "time", "asc">>, <<"sort", "time", "desc">>,
      <<"sort", "importance", "asc">>, <<"sort", "importance", "desc">> }

NextExport ==
    \/ \E u \in BotUsers, inp \in ListedDeadlines : CallAddDeadline(u, inp)
    \/ \E u \in BotUsers, data \in SortData : Press(u, data)
    \/ \E u \in BotUsers : Press(u, <<"list", "deadlines">>)
    \/ \E u \in BotUsers : Press(u, <<"export", "deadlines">>)

ExportSpec == Init /\ [][NextExport]_vars

\* ------------------------------------------------ the add conversation
\* a relative date, an absolute date and a text without a date
AddDateTexts == {"tomorrow 10:30", "2024-01-01 11:30", "soon"}
\* callback data of the edit buttons of the first deadline
FirstEditData ==
    { <<"edit", "1">> }
    \cup { <<"edit", field, "1">> :
              field \in {"title", "desc", "date", "weight"} }

NextAdd ==
    \/ \E u \in BotUsers :
          OneAtATime(<<"add", "deadline">>) /\ Press(u, <<"add", "deadline">>)
    \/ \E u \in BotUsers : Press(u, <<"main", "menu">>)
    \/ \E u \in BotUsers, data \in FirstEditData :
          OneAtATime(data) /\ Press(u, data)
    \/ \E u \in BotUsers, text \in TitleTexts : SendTitle(u, text)
    \/ \E u \in BotUsers, text \in DescriptionTexts : SendDescription(u, text)
    \/ \E u \in BotUsers, text \in AddDateTexts : SendDate(u, text)
    \/ \E u \in BotUsers, text \in WeightTexts : SendWeight(u, text)
    \/ \E u \in BotUsers : SendCancel(u)

AddSpec == Init /\ [][NextAdd]_vars

\* ------------------------------------------------- sharing by access code
RECURSIVE Doubled(_, _)
Doubled(text, n) == IF n = 0 THEN text ELSE Doubled(text \o text, n - 1)
\* a description of 4096 characters, the longest text of one message
LongDescription == Doubled("d", 12)
\* deadlines with a short and with a long description, one of them with an
\* aware date
SharedDeadlines ==
    { [title |-> "report", description |-> "draft", deadline_date |-> 630,
       aware |-> TRUE, weight |-> 3],
      [title |-> "essay", description |-> LongDescription,
       deadline_date |-> 690, aware |-> FALSE, weight |-> 0],
      [title |-> "exam", description |-> LongDescription,
       deadline_date |-> 2070, aware |-> FALSE, weight |-> 10] }
\* the user whose chat imports; the chats of the other users are in no
\* conversation, and a chat in no conversation routes generate_access_code
\* to button_handler as a chat that is entering a code does
Importers == {2}

NextCode ==
    \/ \E u \in Users, inp \in SharedDeadlines : CallAddDeadline(u, inp)
    \/ \E u \in Users :
          /\ Cardinality(access_codes) < MaxCodes
          /\ Press(u, <<"generate", "access", "code">>)
    \/ \E u \in Importers :
          OneAtATime(<<"enter", "code">>) /\ Press(u, <<"enter", "code">>)
    \/ \E u \in Importers, code \in CodeInputs : SendCode(u, code)

CodeSpec == Init /\ [][NextCode]_vars

\* ------------------------------------------- the notification settings
\* texts sent for the times: "9:30", "09:30, 21:00", " 7:5", and "24:00",
\* "10:60", "1030", "9:30,x:1", "10:00:00", "-1:00"
ValidTimesTexts ==
    { <<"9", ":", "3", "0">>,
      <<"0", "9", ":", "3", "0", ",", " ", "2", "1", ":", "0", "0">>,
      <<" ", "7", ":", "5">> }
InvalidTimesTexts ==
    { <<"2", "4", ":", "0", "0">>, <<"1", "0", ":", "6", "0">>,
      <<"1", "0", "3", "0">>,
      <<"9", ":", "3", "0", ",", "x", ":", "1">>,
      <<"1", "0", ":", "0", "0", ":", "0", "0">>,
      <<"-", "1", ":", "0", "0">> }
TimesTexts == ValidTimesTexts \cup InvalidTimesTexts
\* callback data of the day buttons pressed: Monday and Sunday
DayData == { <<"toggle", "day", "0">>, <<"toggle", "day", "6">> }

SendTimes(user_id, times_text) ==
    /\ TextRoute(conv).handler = "save_notification_times"
    /\ Apply(save_notification_times(Ctx, user_id, times_text), "times")

NextSettings ==
    \/ \E u \in Users : AddUser(u)
    \/ \E u \in BotUsers : Press(u, <<"set", "notification", "times">>)
    \/ \E u \in BotUsers, data \in DayData : Press(u, data)
    \/ \E u \in BotUsers, text \in TimesTexts : SendTimes(u, text)

SettingsSpec == Init /\ [][NextSettings]_vars

\* ----------------------------------------------------------------- claims
\* the non-completed rows of a user
ActiveOf(user_id) == {r \in deadlines : r.user_id = user_id /\ ~r.completed}

Range(list) == {list[i] : i \in 1..Len(list)}

\* the tier the classification rule assigns to a row at clock t
Tier(r, t) ==
    LET score == TotalScore(r.weight, r.deadline_date, t)
        mins_until == r.deadline_date - t
    IN  IF score > 10 * Micro \/ mins_until < 60 THEN "Urgent"
        ELSE IF score > 5 * Micro \/ mins_until < 1440 THEN "Regular"
        ELSE "None"

TierOf(user_id, tier) == {r \in ActiveOf(user_id) : Tier(r, now) = tier}

\* C1: in a tick, a user with outstanding tasks is evaluated if and only if
\* the tick's HH:MM is one of the user's times and the tick's weekday is one
\* of the user's days
C1_Eligibility ==
    tick_done =>
        \A u \in Users : ActiveOf(u) # {} =>
            LET settings == get_user_notification_settings(u)
            IN  (invoked[u] > 0) <=>
                    /\ Strftime(now) \in Range(settings.times)
                    /\ Weekday(now) \in Range(settings.days)

\* Saturday 20:00: a user with 20:00 on all days is evaluated, a user with
\* 20:00 on Monday..Friday is not
C1_Witness ==
    /\ tick_done
    /\ now = 8400
    /\ \E a \in Users, b \in Users :
        /\ ActiveOf(a) # {} /\ ActiveOf(b) # {}
        /\ invoked[a] = 1
        /\ invoked[b] = 0
        /\ "20:00" \in Range(get_user_notification_settings(b).times)

\* C2: every active task of an evaluated user is in the urgent list if
\* score > 10 or hoursUntil < 1, else in the regular list if score > 5 or
\* hoursUntil < 24, else in neither
C2_Classification ==
    tick_done =>
        \A u \in Users : invoked[u] > 0 =>
            \A r \in ActiveOf(u) :
                /\ (r.id \in Range(buckets[u].urgent))
                       <=> (Tier(r, now) = "Urgent")
                /\ (r.id \in Range(buckets[u].regular))
                       <=> (Tier(r, now) = "Regular")

\* C3: an eligible user with a task that classifies as Urgent or Regular
\* gets exactly one send_message in the tick
C3_OneDelivery ==
    tick_done =>
        \A u \in Users :
            (/\ invoked[u] > 0
             /\ TierOf(u, "Urgent") \cup TierOf(u, "Regular") # {})
            => Len(sent[u]) = 1

\* C4: urgent tasks give an urgent message and no regular one; otherwise
\* regular tasks give a regular message; otherwise no message
C4_UrgentFirst ==
    tick_done =>
        \A u \in Users : invoked[u] > 0 =>
            /\ TierOf(u, "Urgent") # {} =>
                   /\ Len(sent[u]) = 1
                   /\ sent[u][1].kind = "urgent"
            /\ (TierOf(u, "Urgent") = {} /\ TierOf(u, "Regular") # {}) =>
                   /\ Len(sent[u]) = 1
                   /\ sent[u][1].kind = "regular"
            /\ (TierOf(u, "Urgent") = {} /\ TierOf(u, "Regular") = {}) =>
                   sent[u] = << >>

\* the rows of a set with the given ids, in list order
RowOf(id) == CHOOSE r \in deadlines : r.id = id

\* items lists the min(k, n) highest-scoring rows of a set, best first
TopByScore(items, rows, k) ==
    /\ Len(items) = Min(k, Cardinality(rows))
    /\ \A i \in 1..Len(items) : items[i] \in {r.id : r \in rows}
    /\ \A i \in 1..Len(items), j \in 1..Len(items) : i < j =>
           /\ items[i] # items[j]
           /\ TotalScore(RowOf(items[i]).weight,
                         RowOf(items[i]).deadline_date, now)
              >= TotalScore(RowOf(items[j]).weight,
                            RowOf(items[j]).deadline_date, now)
    /\ \A r \in rows : r.id \notin Range(items) =>
           \A i \in 1..Len(items) :
               TotalScore(RowOf(items[i]).weight,
                          RowOf(items[i]).deadline_date, now)
               >= TotalScore(r.weight, r.deadline_date, now)

\* C5: the urgent message lists exactly the min(5, n) highest-scoring of
\* the n urgent tasks, in descending score order
C5_UrgentTopFive ==
    tick_done =>
        \A u \in Users :
            (invoked[u] > 0 /\ TierOf(u, "Urgent") # {}) =>
                /\ Len(sent[u]) = 1
                /\ sent[u][1].kind = "urgent"
                /\ TopByScore(sent[u][1].items, TierOf(u, "Urgent"), 5)

\* C6: every active task of an evaluated user that is due within one hour
\* or overdue is in the urgent list, whatever its weight
C6_ImminentUrgent ==
    tick_done =>
        \A u \in Users : invoked[u] > 0 =>
            \A r \in ActiveOf(u) :
                r.deadline_date - now < 60 =>
                    r.id \in Range(buckets[u].urgent)

\* C7: in one tick a user is evaluated at most once and is sent at most one
\* message
C7_AtMostOnce ==
    tick_done =>
        \A u \in Users : invoked[u] <= 1 /\ Len(sent[u]) <= 1

\* Monday 10:00: a user whose times list holds 10:00 twice is evaluated once
C7_Witness ==
    /\ tick_done
    /\ now = 600
    /\ \E u \in Users :
        /\ ActiveOf(u) # {}
        /\ get_user_notification_settings(u).times = <<"10:00", "10:00">>
        /\ invoked[u] = 1
        /\ Len(sent[u]) <= 1

\* C8: at the same now, every overdue task scores strictly higher than
\* every future-dated task, whatever the two weights
C8_OverdueDominance ==
    \A i \in 1..Len(score_calls), j \in 1..Len(score_calls) :
        LET a == score_calls[i]
            b == score_calls[j]
        IN  (/\ ~a.result.raised /\ ~b.result.raised
             /\ a.now = b.now
             /\ a.deadline_date - a.now < 0
             /\ b.deadline_date - b.now > 0)
            => a.result.value > b.result.value

\* C9: a weight-5 task due in 240 hours scores at most 5
C9_SilentScore ==
    \A i \in 1..Len(score_calls) :
        LET c == score_calls[i]
        IN  (/\ ~c.result.raised
             /\ c.weight = 5
             /\ c.deadline_date - c.now = 14400)
            => c.result.value <= 5 * Micro

\* C10: with no urgent task, the regular message lists exactly the
\* min(3, n) highest-scoring of the n regular tasks in descending score
\* order, and states n - 3 more when n > 3
C10_RegularTopThree ==
    tick_done =>
        \A u \in Users :
            (/\ invoked[u] > 0
             /\ TierOf(u, "Urgent") = {}
             /\ TierOf(u, "Regular") # {}) =>
                /\ Len(sent[u]) = 1
                /\ sent[u][1].kind = "regular"
                /\ TopByScore(sent[u][1].items, TierOf(u, "Regular"), 3)
                /\ sent[u][1].more =
                       IF Cardinality(TierOf(u, "Regular")) > 3
                       THEN Cardinality(TierOf(u, "Regular")) - 3 ELSE 0

\* C11: a user who never saved notification preferences has the default
\* times = {} with all seven weekdays, and no tick evaluates such a user
C11_SilentDefault ==
    tick_done =>
        \A u \in users \ configured :
            /\ get_user_notification_settings(u).days = AllDays
            /\ invoked[u] = 0

\* the ids any part of a user's evaluation handled in the tick
Handled(u) ==
    Range(scored[u]) \cup Range(buckets[u].urgent)
        \cup Range(buckets[u].regular)
        \cup UNION {Range(sent[u][i].items) : i \in 1..Len(sent[u])}

\* C12: a tick lists exactly the users owning a non-completed task, a user
\* with no such task is not evaluated, and only non-completed tasks that
\* exist are scored, classified or included in a message
C12_ActiveOnly ==
    tick_done =>
        /\ all_users = {u \in Users : ActiveOf(u) # {}}
        /\ \A u \in Users :
            /\ ActiveOf(u) = {} => invoked[u] = 0 /\ Handled(u) = {}
            /\ Handled(u) \subseteq {r.id : r \in ActiveOf(u)}

\* C12 witness: at a matching minute a user whose only task is completed is
\* not listed and not evaluated while another user's active task is scored
C12_Witness ==
    /\ tick_done
    /\ \E a \in Users, b \in Users :
        /\ \E r \in deadlines : r.user_id = a
        /\ ActiveOf(a) = {}
        /\ should_notify(get_user_notification_settings(a), Strftime(now),
               Weekday(now))
        /\ a \notin all_users
        /\ invoked[b] = 1
        /\ scored[b] # << >>

\* C13: in an evaluation every active task of the user is scored, whatever
\* happens to the scoring of the user's other tasks
C13_OtherTasksStillScored ==
    tick_done =>
        \A u \in Users : invoked[u] > 0 =>
            \A r \in ActiveOf(u) : r.id \in Range(scored[u])

\* C15: when a database read made for one user raises during a tick, no
\* delivery is attempted for that user and every other listed user is
\* evaluated exactly as in a tick without the failure
C15_ReadFailureContained ==
    (tick_done /\ repo_error.read # "none") =>
        /\ sent[repo_error.user_id] = << >>
        /\ \A u \in all_users \ {repo_error.user_id} :
               invoked[u] =
                   Invocations(get_user_notification_settings(u),
                       Strftime(now), Weekday(now))

\* C16: the score is determined by the arguments of the call: two calls
\* with the same weight and the same due date return the same score
C16_PureScore ==
    \A i \in 1..Len(score_calls), j \in 1..Len(score_calls) :
        LET a == score_calls[i]
            b == score_calls[j]
        IN  (/\ a.weight = b.weight
             /\ a.deadline_date = b.deadline_date
             /\ a.aware = b.aware)
            => a.result = b.result

\* the zone coefficient of the claimed score for mins minutes remaining
ZoneCoefficient(mins) ==
    IF mins <= 72 * 60 THEN 2000 ELSE IF mins <= 504 * 60 THEN 200 ELSE 5

\* weight x (zoneCoefficient / (hoursRemaining + 1)) in thousandths
ZoneScoreMilli(weight, mins) ==
    (weight * ZoneCoefficient(mins) * 60 * 1000) \div (mins + 60)

\* C17: a future-dated task scores weight x zoneCoefficient /
\* (hoursRemaining + 1), to the thousandth; so a weight-0 task scores 0
C17_ZoneFormula ==
    \A i \in 1..Len(score_calls) :
        LET c == score_calls[i]
            mins == c.deadline_date - c.now
            diff == (c.result.value \div 1000) - ZoneScoreMilli(c.weight, mins)
        IN  (~c.result.raised /\ mins > 0) => (diff >= -1 /\ diff <= 1)

\* C18: of two calls for the same future task, the one made closer to the
\* due date scores no less, and strictly more when the weight is positive
\* and both calls are in the same zone
C18_MonotoneInTime ==
    \A i \in 1..Len(score_calls), j \in 1..Len(score_calls) :
        LET a == score_calls[i]
            b == score_calls[j]
        IN  (/\ ~a.result.raised /\ ~b.result.raised
             /\ a.weight = b.weight
             /\ a.deadline_date = b.deadline_date
             /\ a.now < b.now
             /\ b.deadline_date - b.now > 0)
            => /\ a.result.value <= b.result.value
               /\ (/\ a.weight > 0
                   /\ ZoneCoefficient(a.deadline_date - a.now)
                          = ZoneCoefficient(b.deadline_date - b.now))
                  => a.result.value < b.result.value

\* C19: no two tick evaluations take place in the same wall-clock minute
C19_OneTickPerMinute ==
    \A i \in 1..Len(evaluated_at), j \in 1..Len(evaluated_at) :
        i # j => evaluated_at[i] # evaluated_at[j]

\* C20: at no time are two evaluations in flight
C20_NoOverlap == running <= 1

\* C20 witness: an evaluation is in flight and the firing of a later minute
\* was refused because of it
C20_Witness ==
    /\ running = 1
    /\ pending = << >>
    /\ \E m \in skipped : m > evaluated_at[Len(evaluated_at)]

\* C22: no evaluation is made for a fire time before the first minute
\* boundary after start(), every evaluation runs in the minute of its fire
\* time (a tick missed at its minute is not run later), and once stop()
\* has returned no evaluation starts or continues
C22_StartStop ==
    /\ \A i \in 1..Len(fired_for) :
           fired_for[i] >= 1 /\ evaluated_at[i] = fired_for[i]
    /\ stopped => (running = 0 /\ pending = << >>)

\* the label the fixed thresholds give to a score in millionths
SeverityLabel(score) ==
    IF score >= 25 * Micro THEN "Critical"
    ELSE IF score >= 15 * Micro /\ score < 25 * Micro THEN "VeryUrgent"
    ELSE IF score >= 10 * Micro /\ score < 15 * Micro THEN "Urgent"
    ELSE IF score >= 7 * Micro /\ score < 10 * Micro THEN "Important"
    ELSE IF score >= 4 * Micro /\ score < 7 * Micro THEN "Normal"
    ELSE "LowPriority"

\* C30: whenever a score is computed, the description is the one label the
\* thresholds 25, 15, 10, 7, 4 assign to that score
C30_SeverityLabel ==
    \A i \in 1..Len(score_calls) :
        LET c == score_calls[i]
        IN  ~c.result.raised =>
               /\ ~c.description.raised
               /\ c.description.label = SeverityLabel(c.result.value)

\* C30 witness: a score exactly on the threshold 10 labelled Urgent and a
\* score below 4 labelled LowPriority
C30_Witness ==
    \E i \in 1..Len(score_calls), j \in 1..Len(score_calls) :
        /\ score_calls[i].result.value = 10 * Micro
        /\ score_calls[i].description.label = "Urgent"
        /\ ~score_calls[j].result.raised
        /\ score_calls[j].result.value < 4 * Micro
        /\ score_calls[j].description.label = "LowPriority"

\* rows of the table with the given id
RowsWithId(table, deadline_id) == {r \in table : r.id = deadline_id}

Mutators == {"complete_deadline", "reopen_deadline", "delete_deadline",
             "update_deadline"}

\* C24: complete_deadline, reopen_deadline, delete_deadline and
\* update_deadline called with a user id that is not the owner of the task
\* return False and leave the whole table unchanged
C24_OwnerOnly ==
    [][ ( /\ returned'.op \in Mutators
          /\ \E r \in deadlines : /\ r.id = returned'.deadline_id
                                  /\ r.user_id # returned'.user_id )
        => ( ~returned'.value /\ deadlines' = deadlines ) ]_vars

\* a user who is not the owner tried to reopen a completed task, which is
\* still completed
C24_Witness ==
    /\ returned.op = "reopen_deadline"
    /\ ~returned.value
    /\ \E r \in deadlines : /\ r.id = returned.deadline_id
                            /\ r.user_id # returned.user_id
                            /\ r.completed /\ r.completed_at # << >>

\* C25: lifecycle of a task: added -> active list; completed by the owner
\* -> True, completed and completed_at set, moved to the completed list;
\* reopened -> flags cleared, back in the active list, other fields kept
\* (complete then reopen gives the table back); deleted -> in neither list,
\* and its id is never handed out again
C25_Lifecycle ==
    [][ LET id == returned'.deadline_id
            u  == returned'.user_id
            owned == Matching(deadlines, id, u)
        IN  /\ returned'.op = "add_deadline" =>
                  /\ id \in ActiveList(deadlines', u)
                  /\ RowsWithId(deadlines, id) = {}
            /\ (returned'.op = "complete_deadline" /\ owned # {}) =>
                  /\ returned'.value
                  /\ \A r \in Matching(deadlines', id, u) :
                         r.completed /\ r.completed_at # << >>
                  /\ id \notin ActiveList(deadlines', u)
                  /\ id \in CompletedList(deadlines', u)
            /\ (returned'.op = "reopen_deadline" /\ owned # {}) =>
                  /\ returned'.value
                  /\ Matching(deadlines', id, u) =
                         { [r EXCEPT !.completed = FALSE,
                                     !.completed_at = << >>] : r \in owned }
                  /\ id \in ActiveList(deadlines', u)
                  /\ id \notin CompletedList(deadlines', u)
            /\ (returned'.op = "delete_deadline" /\ owned # {}) =>
                  /\ returned'.value
                  /\ id \notin ActiveList(deadlines', u)
                  /\ id \notin CompletedList(deadlines', u)
            /\ \A r \in deadlines : r.id < next_id /\ next_id <= next_id'
            /\ \A r \in deadlines :
                  ~r.completed =>
                     \A t \in DbTimes :
                        reopen_deadline(
                            complete_deadline(deadlines, r.id, r.user_id,
                                              t).table,
                            r.id, r.user_id).table = deadlines
      ]_vars

\* the owner reopened a task: it is active again with its fields as added,
\* while another task was deleted for good
C25_Witness ==
    /\ returned.op = "reopen_deadline"
    /\ returned.value
    /\ \E r \in deadlines : /\ r.id = returned.deadline_id
                            /\ r.user_id = returned.user_id
                            /\ ~r.completed /\ r.completed_at = << >>
                            /\ r.title = NewDeadline.title
    /\ next_id > 1 + Cardinality(deadlines)

\* C26: an added user who was never granted access has none; grant_access
\* gives it to that user and changes nobody else's
C26_Access ==
    [][ /\ \A u \in users \ granted : ~has_access(u)
        /\ returned'.op = "grant_access" =>
              /\ returned'.user_id \in users =>
                     (returned'.user_id \in users'
                      /\ returned'.user_id \in access')
              /\ \A v \in AccessUsers \ {returned'.user_id} :
                     (v \in users' /\ v \in access') <=> has_access(v)
        /\ returned'.op = "has_access" =>
              (returned'.value <=> returned'.user_id \in access)
      ]_vars

\* has_access answered True for one user while another added user, never
\* granted, has none
C26_Witness ==
    /\ returned.op = "has_access" /\ returned.value
    /\ \E v \in users \ granted : v # returned.user_id /\ ~has_access(v)

\* C27: update_deadline by the owner with a field given returns True, sets
\* exactly the given fields, keeps the other fields and the other tasks;
\* with no field given it returns False and changes nothing
C27_UpdateFrame ==
    [][ returned'.op = "update_deadline" =>
          LET id == returned'.deadline_id
              u  == returned'.user_id
              a  == returned'.args
              owned == Matching(deadlines, id, u)
          IN  IF a = NoArgs
              THEN ~returned'.value /\ deadlines' = deadlines
              ELSE owned # {} =>
                     /\ returned'.value
                     /\ deadlines' \ Matching(deadlines', id, u) =
                            deadlines \ owned
                     /\ \A r \in owned :
                          \E q \in Matching(deadlines', id, u) :
                            /\ q.title = IF a.title = << >> THEN r.title
                                          ELSE a.title[1]
                            /\ q.description =
                                  IF a.description = << >>
                                  THEN r.description ELSE a.description[1]
                            /\ q.deadline_date =
                                  IF a.deadline_date = << >>
                                  THEN r.deadline_date
                                  ELSE a.deadline_date[1].deadline_date
                            /\ q.aware =
                                  IF a.deadline_date = << >> THEN r.aware
                                  ELSE a.deadline_date[1].aware
                            /\ q.weight = IF a.weight = << >> THEN r.weight
                                           ELSE a.weight[1]
                            /\ q.completed = r.completed
                            /\ q.completed_at = r.completed_at
                            /\ q.id = r.id /\ q.user_id = r.user_id
      ]_vars

\* only the title of a completed task was updated: the new title is stored
\* and description, date, weight and completion are as before
C27_Witness ==
    /\ returned.op = "update_deadline"
    /\ returned.value
    /\ returned.args = [NoArgs EXCEPT !.title = << "slides" >>]
    /\ \E r \in deadlines : /\ r.id = returned.deadline_id
                            /\ r.user_id = returned.user_id
                            /\ r.title = "slides"
                            /\ r.description = NewDeadline.description
                            /\ r.weight = NewDeadline.weight
                            /\ r.completed

\* the callback data of the Edit button of a deadline
EditButton(deadline_id) == <<"edit", Digits[deadline_id + 1]>>
\* a weight text that is a whole number of 0..10
Acceptable(text) == ~int(text).raised /\ int(text).value \in 0..10
\* the handler asked again in the given state and wrote nothing
AskedAgain(result, state) ==
    ~result.raised /\ result.ctx = Ctx /\ result.returns = state

\* C23: after any sequence of additions, weight edits and imports every
\* stored deadline, and every deadline held under an access code, has a
\* whole weight of 0..10; a weight text that is not a number of 0..10 makes
\* add_weight, edit_weight and save_deadline_weight ask again and store or
\* change nothing
C23_WeightRange ==
    /\ \A r \in deadlines : r.weight \in 0..10
    /\ \A code \in access_codes : \A i \in 1..Len(code.data) :
           code.data[i].weight \in 0..10
    /\ \A u \in BotUsers, text \in WeightTexts :
           ~Acceptable(text) =>
               /\ AskedAgain(add_weight(Ctx, u, text), "ADD_WEIGHT")
               /\ AskedAgain(edit_weight(Ctx, u, text), "EDIT_WEIGHT")
               /\ AskedAgain(save_deadline_weight(Ctx, u, text),
                             "EDIT_DEADLINE")
\* a deadline was added, another imported under an access code, and a
\* weight outside 0..10 sent to the weight edit was just refused
C23_Witness ==
    /\ shown.view = "weight_out_of_range"
    /\ conv.edit = "EDIT_WEIGHT"
    /\ user_data.editing_field = << "weight" >>
    /\ \E r \in deadlines : ~r.aware /\ r.weight = 10
    /\ \E r \in deadlines : r.aware /\ r.weight = 10

\* C28: when the chat is in no conversation, as it is on a deadline's detail
\* view, pressing the Edit button of an active deadline of the user's shows
\* the menu of the four single-field edits
C28_EditShowsMenu ==
    \A u \in BotUsers, r \in deadlines :
        (r.user_id = u /\ ~r.completed /\ conv = NoConversation) =>
            LET route == Route(conv, EditButton(r.id))
                result == HandleCallback(route.handler, Ctx, u,
                                         EditButton(r.id))
            IN  /\ route.handler = "show_edit_options"
                /\ ~result.raised
                /\ result.view = "edit_options"

\* C29: whenever the list view shows the user's active deadlines, the export
\* lists them in the same order, that of the saved sort preference
C29_ExportFollowsPreference ==
    \A u \in BotUsers :
        LET listed == list_deadlines(Ctx, u, << >>)
            exported == export_deadlines(Ctx, u)
        IN  (~listed.raised /\ listed.view = "list") =>
                ~exported.raised /\ exported.lines = listed.lines

\* what a tick decided to send to each user, whatever became of the delivery
Decided(messages) ==
    [u \in Users |->
        [i \in 1..Len(messages[u]) |->
            [kind |-> messages[u][i].kind, chat_id |-> messages[u][i].chat_id,
             items |-> messages[u][i].items, more |-> messages[u][i].more]]]

\* C31: a tick leaves the stored deadlines, users, notification preferences,
\* display settings and access data unchanged, and a tick that follows a
\* tick at the same minute over the same data lists the same users, calls
\* the same evaluations, scores and classifies alike and decides the same
\* messages
C31_TickReadOnly ==
    [][ tick_done' =>
          /\ UNCHANGED <<dbVars, access, granted, access_codes,
                         sort_preference>>
          /\ (tick_done /\ now' = now) =>
                 /\ all_users' = all_users
                 /\ invoked' = invoked
                 /\ scored' = scored
                 /\ buckets' = buckets
                 /\ Decided(sent') = Decided(sent)
      ]_vars
\* a tick evaluated a user who has saved preferences and an active deadline
C31_Witness ==
    /\ tick_done
    /\ \E u \in configured : invoked[u] = 1 /\ scored[u] # << >>

\* C32: in a tick a message is sent to a user only when every active
\* deadline of the user was scored; an evaluation that an error ended
\* before the last deadline sends nothing
C32_NoPartialDelivery ==
    tick_done =>
        \A u \in Users :
            /\ sent[u] # << >> =>
                   Range(scored[u]) = {r.id : r \in ActiveOf(u)}
            /\ (invoked[u] > 0
                  /\ Range(scored[u]) # {r.id : r \in ActiveOf(u)}) =>
                   sent[u] = << >>
\* the evaluation of a user with two active deadlines ended in an error
\* after the first was handed to the score, and nothing was sent
C32_Witness ==
    /\ tick_done
    /\ \E u \in Users :
         /\ invoked[u] = 1
         /\ Cardinality(ActiveOf(u)) = 2
         /\ Len(scored[u]) = 1
         /\ error_log[u] # << >>
         /\ sent[u] = << >>

\* C33: a user who has access keeps it through every later operation,
\* another /start of the same user included
C33_AccessMonotonic ==
    [][ \A u \in AccessUsers : has_access(u) => has_access(u)' ]_vars

\* C34: every stored notification time is the HH:MM text of a minute of the
\* day; "9:30" is stored as "09:30" and matches the tick at 09:30 on each
\* of the user's days; a text with an invalid entry leaves the stored
\* preferences as they are and the conversation in SET_NOTIFICATION_TIME
C34_StoredTimes ==
    /\ \A u \in DOMAIN notification_settings :
         \A i \in 1..Len(notification_settings[u].times) :
            \E t \in 0..1439 : notification_settings[u].times[i] = Strftime(t)
    /\ \A u \in BotUsers :
         LET saved == save_notification_times(Ctx, u, <<"9", ":", "3", "0">>)
             stored == saved.ctx.notification_settings[u]
         IN  /\ saved.returns = "END"
             /\ stored.times = << "09:30" >>
             /\ \A d \in Range(stored.days) :
                   should_notify(stored, Strftime(570 + 1440 * d),
                                 Weekday(570 + 1440 * d))
    /\ \A u \in BotUsers, text \in InvalidTimesTexts :
         AskedAgain(save_notification_times(Ctx, u, text),
                    "SET_NOTIFICATION_TIME")
\* "9:30" was saved as "09:30", and a later text with an invalid entry was
\* refused
C34_Witness ==
    /\ \E u \in BotUsers :
         /\ u \in configured
         /\ notification_settings[u].times = << "09:30" >>
    /\ shown.view = "bad_times"
    /\ conv.times = "SET_NOTIFICATION_TIME"

\* the context with no stored notification preferences
Unconfigured(c) ==
    [c EXCEPT !.notification_settings = [u \in {} |-> DefaultSettings]]

\* C35: save_notification_times stores times that do not depend on the
\* earlier ones and keeps the user's days; toggle_notification_day(d) flips
\* the membership of d alone, keeps the times, and applied twice gives the
\* same set of days; neither changes the preferences of another user
C35_OwnComponent ==
    \A u \in BotUsers :
        LET old == SettingsOf(Ctx, u)
            others == DOMAIN notification_settings \ {u}
        IN  /\ Len(old.days) = Cardinality(Range(old.days))
            /\ \A text \in ValidTimesTexts :
                 LET new == save_notification_times(Ctx, u, text)
                                .ctx.notification_settings
                     fresh == save_notification_times(Unconfigured(Ctx), u,
                                  text).ctx.notification_settings
                 IN  /\ new[u].times = fresh[u].times
                     /\ new[u].days = old.days
                     /\ DOMAIN new = others \cup {u}
                     /\ \A v \in others : new[v] = notification_settings[v]
            /\ \A d \in 0..6 :
                 LET once == toggle_notification_day(Ctx, u, d).ctx
                     twice == toggle_notification_day(once, u, d).ctx
                     new == once.notification_settings
                 IN  /\ Range(new[u].days) =
                            IF d \in Range(old.days)
                            THEN Range(old.days) \ {d}
                            ELSE Range(old.days) \cup {d}
                     /\ new[u].times = old.times
                     /\ Range(twice.notification_settings[u].days) =
                            Range(old.days)
                     /\ twice.notification_settings[u].times = old.times
                     /\ DOMAIN new = others \cup {u}
                     /\ \A v \in others : new[v] = notification_settings[v]
\* the user saved "09:30" and took Monday off the days, while another
\* user's row holds the defaults
C35_Witness ==
    /\ shown.view = "days"
    /\ \E u \in BotUsers, v \in Users :
         /\ u # v
         /\ u \in DOMAIN notification_settings
         /\ notification_settings[u].times = << "09:30" >>
         /\ Range(notification_settings[u].days) = {1, 2, 3, 4, 5, 6}
         /\ v \in DOMAIN notification_settings
         /\ notification_settings[v] = DefaultSettings

\* the state a text handler's result leaves the add conversation in
AddStateAfter(result) ==
    IF result.raised \/ result.returns = "None" THEN conv.add
    ELSE result.returns

\* C36: in the add conversation a text stores a deadline only in ADD_WEIGHT
\* and only when it is a whole weight of 0..10: then exactly one deadline of
\* the user is stored with the collected title, description and date and
\* that weight, the conversation ends and its collected data is cleared; a
\* text without a date in ADD_DATE and another weight text in ADD_WEIGHT
\* store nothing and leave the conversation in its state
C36_AddStoresOnce ==
    \A u \in BotUsers :
        /\ TextRoute(conv).handler = "add_title" =>
               \A text \in TitleTexts :
                   add_title(Ctx, u, text).ctx.deadlines = deadlines
        /\ TextRoute(conv).handler = "add_description" =>
               \A text \in DescriptionTexts :
                   add_description(Ctx, u, text).ctx.deadlines = deadlines
        /\ TextRoute(conv).handler = "add_date" =>
               \A text \in AddDateTexts :
                   LET result == add_date(Ctx, u, text)
                   IN  /\ result.ctx.deadlines = deadlines
                       /\ parse_date(text).raised =>
                              AskedAgain(result, "ADD_DATE")
        /\ TextRoute(conv).handler = "add_weight" =>
               \A text \in WeightTexts :
                   LET result == add_weight(Ctx, u, text)
                   IN  IF Acceptable(text)
                       THEN /\ AddStateAfter(result) = "END"
                            /\ result.ctx.user_data = NoData
                            /\ user_data.title # << >>
                            /\ user_data.description # << >>
                            /\ user_data.deadline_date # << >>
                            /\ result.ctx.deadlines = deadlines \cup
                                   { NewRow(Ctx, u, user_data.title[1],
                                            user_data.description[1],
                                            user_data.deadline_date[1],
                                            int(text).value) }
                            /\ Cardinality(result.ctx.deadlines) =
                                   Cardinality(deadlines) + 1
                       ELSE AskedAgain(result, "ADD_WEIGHT")

\* the last message carries a button with the callback data main_menu: the
\* title prompt, the reply to a text without a date and the replies to a
\* weight that is not a number of 0..10
MainMenuOffered ==
    shown.view \in {"ask_title", "date_not_recognised",
                    "weight_out_of_range", "ask_number"}

\* C37: when the chat is in the add conversation and presses the main_menu
\* button of the bot's last message, and the main menu is shown, the add
\* conversation is ended and its collected data cleared, so that the next
\* text message is not taken by a handler of the add conversation
C37_MainMenuEndsAdd ==
    \A u \in BotUsers :
        (conv.add # "END" /\ MainMenuOffered) =>
            LET route == Route(conv, <<"main", "menu">>)
                result == HandleCallback(route.handler, Ctx, u,
                                         <<"main", "menu">>)
                left == IF route.conversation = "add"
                        THEN AddStateAfter(result) ELSE conv.add
            IN  (~result.raised /\ result.view = "main_menu") =>
                    /\ left = "END"
                    /\ result.ctx.user_data = NoData
                    /\ TextRoute([conv EXCEPT !.add = left]).conversation
                           # "add"

\* the conversation states after a routed callback query was handled
AfterPress(result, route) ==
    IF route.conversation = "none" \/ result.raised
       \/ result.returns = "None"
    THEN conv
    ELSE [conv EXCEPT ![route.conversation] = result.returns]

\* C38: when the menu of the four single-field edits is shown for an active
\* deadline of the user's, pressing its title button and then sending a text
\* makes that text the deadline's title, leaves its description, date and
\* weight and every other deadline unchanged, and ends the edit conversation
C38_TitleEditOnly ==
    \A u \in BotUsers, r \in deadlines :
        (/\ r.user_id = u /\ ~r.completed
         /\ shown.view = "edit_options"
         /\ user_data.edit_deadline_id = << r.id >>) =>
            LET data == <<"edit", "title", Digits[r.id + 1]>>
                route == Route(conv, data)
                pressed == HandleCallback(route.handler, Ctx, u, data)
                chat == AfterPress(pressed, route)
            IN  /\ ~pressed.raised
                /\ TextRoute(chat).handler = "edit_title"
                /\ \A text \in {"essay", "slides"} :
                       LET result == edit_title(pressed.ctx, u, text)
                       IN  /\ ~result.raised
                           /\ result.returns = "END"
                           /\ result.ctx.deadlines =
                                  (deadlines \ {r})
                                      \cup {[r EXCEPT !.title = text]}

\* the format check of import_deadlines_from_code accepts the code
WellFormed(code) == code.prefix = "DL" /\ code.length = 18

\* importing the data into the account of b adds one active deadline of b
\* per entry, in the order of the entries and with the entry's title,
\* description, date and weight, and leaves every stored deadline as it is
AddsEntries(result, data, b) ==
    /\ ~result.raised
    /\ result.returns = "END"
    /\ deadlines \subseteq result.ctx.deadlines
    /\ Cardinality(result.ctx.deadlines \ deadlines) = Len(data)
    /\ \A i \in 1..Len(data) :
           \E r \in result.ctx.deadlines \ deadlines :
               /\ r.id = next_id + i - 1
               /\ r.user_id = b /\ ~r.completed
               /\ r.title = data[i].title
               /\ r.description = data[i].description
               /\ r.deadline_date = data[i].deadline_date
               /\ r.weight = data[i].weight

\* C39: every access code that was generated passes the format check of the
\* import, and importing it into the account of a user adds exactly one
\* active deadline per deadline that was active for the generating user
\* when the code was generated, with equal title, description, date and
\* weight, and changes no deadline that was stored before
C39_RoundTrip ==
    /\ \A code \in access_codes :
           /\ WellFormed(code)
           /\ \A b \in Importers :
                  AddsEntries(import_deadlines_from_code(Ctx, b, code),
                              code.data, b)
    /\ \A a \in Users, b \in Importers :
           LET generated == generate_access_code(Ctx, a)
               data == DeadlineData(OrderByDate(ActiveOf(a)))
           IN  generated.view = "code_created" =>
                   /\ AccessCode(data) \in generated.ctx.access_codes
                   /\ WellFormed(AccessCode(data))
                   /\ AddsEntries(import_deadlines_from_code(
                                      generated.ctx, b, AccessCode(data)),
                                  data, b)

====
